---- MODULE Spec2Model ----
(***************************************************************************)
(* Model of the Stratum V2 job source of mujina-miner                      *)
(* (mujina-miner/src/job_source/stratum_v2/{mod,client,state,messages}.rs). *)
(*                                                                         *)
(* One StratumV2Source task: connect, SetupConnection,                     *)
(* OpenStandardMiningChannel, then the select loop over pool frames,       *)
(* scheduler commands and the shutdown token.                              *)
(***************************************************************************)
EXTENDS Integers, Sequences, FiniteSets, TLC

(***************************************************************************)
(* Bounds of the model.                                                    *)
(***************************************************************************)
\* capacity of the frame channel from the transport to the client
PoolQueueCap == 1
\* capacity of the command channel from the scheduler
CmdQueueCap == 2
\* capacity of the bounded event channel to the scheduler
EventCap == 1
\* number of SubmitShare commands the scheduler issues in one connection
MaxCmds == 3
\* number of events the source emits before the pool stops sending frames,
\* in the connection specification
MaxConnEvents == 2
\* the same, in the job specification
MaxEvents == 2
\* the same, in the window specification
MaxWindowEvents == 2
\* the same, in the ordering specification
MaxOrderEvents == 2
\* the same, in the liveness specification
MaxLiveEvents == 2
\* job ids announced by the pool in the window specification: 1..MaxWindowJobId
MaxWindowJobId == 11
\* the latest timestamp of a capture event, in units of 100 us
MaxTime == 61

(***************************************************************************)
(* Program constants.                                                      *)
(***************************************************************************)
\* max_retries of connect_with_retry
max_retries == 3
\* keep_count passed to clean_old_jobs by handle_new_mining_job
KeepCount == 10
\* width of a hash / target in bytes
HashLen == 32
\* u32::MAX / 10 and u32::MAX % 10, the overflow test of str::parse::<u32>
U32MaxDiv10 == 429496729
U32MaxMod10 == 5

(***************************************************************************)
(* Option and Result values.                                               *)
(***************************************************************************)
None == <<>>
Some(x) == <<x>>
IsSome(o) == o # <<>>
Unwrap(o) == o[1]

Ok(v) == [ok |-> TRUE, val |-> v]
Err(e) == [ok |-> FALSE, val |-> e]

(***************************************************************************)
(* Byte arrays.  A 256-bit number is held as its 32 base-256 digits, most  *)
(* significant first.                                                      *)
(***************************************************************************)
Bytes32(b) == [i \in 1..HashLen |-> b]
\* the 32 bytes 01 00 .. 00
LowByteOne == [i \in 1..HashLen |-> IF i = 1 THEN 1 ELSE 0]

\* Target::from_be_bytes: the first byte is the most significant digit
from_be_bytes(bytes) == [i \in 1..HashLen |-> bytes[i]]

\* Target::from_le_bytes: the last byte is the most significant digit
from_le_bytes(bytes) == [i \in 1..HashLen |-> bytes[HashLen + 1 - i]]

\* Target::MAX = 0xFFFF * 2^208
TargetMAX == [i \in 1..HashLen |-> IF i \in {5, 6} THEN 255 ELSE 0]

(***************************************************************************)
(* Decimal strings.  A string is a sequence of ASCII codes.                *)
(***************************************************************************)
RECURSIVE to_string_lsd_first(_)
\* the decimal digits of n, least significant first
to_string_lsd_first(n) ==
    IF n < 10 THEN <<48 + n>>
    ELSE <<48 + (n % 10)>> \o to_string_lsd_first(n \div 10)

RECURSIVE to_string(_)
\* u32::to_string
to_string(n) ==
    IF n < 10 THEN <<48 + n>>
    ELSE Append(to_string(n \div 10), 48 + (n % 10))

RECURSIVE ParseDigits(_, _)
\* the digit loop of from_str_radix(_, 10) with its checked multiply / add
ParseDigits(s, acc) ==
    IF s = <<>> THEN Ok(acc)
    ELSE LET c == Head(s) IN
         IF c < 48 \/ c > 57 THEN Err("InvalidDigit")
         ELSE LET d == c - 48 IN
              IF acc > U32MaxDiv10 \/ (acc = U32MaxDiv10 /\ d > U32MaxMod10)
              THEN Err("PosOverflow")
              ELSE ParseDigits(Tail(s), acc * 10 + d)

\* str::parse::<u32>
parse_u32(s) ==
    IF s = <<>> THEN Err("Empty")
    ELSE IF Head(s) = 43
         THEN (IF Len(s) = 1 THEN Err("InvalidDigit") ELSE ParseDigits(Tail(s), 0))
         ELSE ParseDigits(s, 0)

(***************************************************************************)
(* Pool URLs.  A URL is a string (a sequence of ASCII codes); a socket     *)
(* address is [ip, port] with ip the four octets of an IPv4 address.       *)
(***************************************************************************)
\* "sv2+tcp://"
Sv2Prefix == <<115, 118, 50, 43, 116, 99, 112, 58, 47, 47>>
\* "stratum+tcp://"
StratumPrefix == <<115, 116, 114, 97, 116, 117, 109, 43, 116, 99, 112, 58, 47, 47>>
\* "." and ":"
Dot == 46
Colon == 58

\* str::strip_prefix
strip_prefix(s, prefix) ==
    IF Len(s) >= Len(prefix) /\ SubSeq(s, 1, Len(prefix)) = prefix
    THEN Some(SubSeq(s, Len(prefix) + 1, Len(s)))
    ELSE None

\* the prefix stripped up to and including the first "://", whatever the scheme
RECURSIVE strip_any_scheme(_)
strip_any_scheme(s) ==
    IF Len(s) < 3 THEN None
    ELSE IF SubSeq(s, 1, 3) = <<58, 47, 47>> THEN Some(SubSeq(s, 4, Len(s)))
    ELSE strip_any_scheme(Tail(s))

IsDigit(c) == c >= 48 /\ c <= 57

RECURSIVE ReadDigits(_, _, _, _)
\* the digit loop of the address parser's read_number: the decimal digits at
\* the head of s, with the count of digits read and the checked value
ReadDigits(s, count, acc, limit) ==
    IF s = << >> \/ ~IsDigit(Head(s))
    THEN Some([val |-> acc, count |-> count, rest |-> s])
    ELSE IF acc * 10 + (Head(s) - 48) > limit THEN None
    ELSE ReadDigits(Tail(s), count + 1, acc * 10 + (Head(s) - 48), limit)

\* read_number(10, max_digits, allow_zero_prefix) into an integer of the
\* given limit; max_digits = 0 stands for no maximum
read_number(s, max_digits, limit, allow_zero_prefix) ==
    LET r == ReadDigits(s, 0, 0, limit)
    IN IF ~IsSome(r) THEN None
       ELSE IF Unwrap(r).count = 0 THEN None
       ELSE IF max_digits > 0 /\ Unwrap(r).count > max_digits THEN None
       ELSE IF ~allow_zero_prefix /\ Unwrap(r).count > 1 /\ Head(s) = 48 THEN None
       ELSE r

\* read_given_char
read_given_char(s, c) ==
    IF s # << >> /\ Head(s) = c THEN Some(Tail(s)) ELSE None

RECURSIVE read_octets(_, _)
\* read_ipv4_addr: `left` octets separated by dots
read_octets(s, left) ==
    LET n == read_number(s, 3, 255, FALSE)
    IN IF ~IsSome(n) THEN None
       ELSE IF left = 1 THEN Some([octets |-> <<Unwrap(n).val>>, rest |-> Unwrap(n).rest])
       ELSE LET d == read_given_char(Unwrap(n).rest, Dot)
            IN IF ~IsSome(d) THEN None
               ELSE LET more == read_octets(Unwrap(d), left - 1)
                    IN IF ~IsSome(more) THEN None
                       ELSE Some([octets |-> <<Unwrap(n).val>> \o Unwrap(more).octets,
                                  rest |-> Unwrap(more).rest])

\* str::parse::<SocketAddr> on strings without brackets (IPv4 address, ":",
\* port, and nothing after it)
parse_socket_addr(s) ==
    LET ip == read_octets(s, 4)
    IN IF ~IsSome(ip) THEN Err("AddrParseError")
       ELSE LET c == read_given_char(Unwrap(ip).rest, Colon)
            IN IF ~IsSome(c) THEN Err("AddrParseError")
               ELSE LET port == read_number(Unwrap(c), 0, 65535, TRUE)
                    IN IF ~IsSome(port) THEN Err("AddrParseError")
                       ELSE IF Unwrap(port).rest # << >> THEN Err("AddrParseError")
                       ELSE Ok([ip |-> Unwrap(ip).octets, port |-> Unwrap(port).val])

\* StratumV2Client::parse_url that accepts every scheme
StratumV2Client_parse_url_any_scheme(url) ==
    LET addr_str == strip_any_scheme(url)
    IN IF ~IsSome(addr_str) THEN Err("URL must start with sv2+tcp://")
       ELSE parse_socket_addr(Unwrap(addr_str))

\* StratumV2Client::parse_url
StratumV2Client_parse_url(url) ==
    LET addr_str == strip_prefix(url, Sv2Prefix)
    IN IF ~IsSome(addr_str) THEN Err("URL must start with sv2+tcp://")
       ELSE parse_socket_addr(Unwrap(addr_str))

\* the text a.b.c.d:port
AddrText(ip, port) ==
    to_string(ip[1]) \o <<Dot>> \o to_string(ip[2]) \o <<Dot>> \o to_string(ip[3])
    \o <<Dot>> \o to_string(ip[4]) \o <<Colon>> \o to_string(port)

\* "sv2+tcp://127.0.0.1:3333" and "stratum+tcp://127.0.0.1:3333"
PoolUrl == Sv2Prefix \o AddrText(<<127, 0, 0, 1>>, 3333)
StratumV1Url == StratumPrefix \o AddrText(<<127, 0, 0, 1>>, 3333)

\* the sample of pool URLs
Schemes == {Sv2Prefix, StratumPrefix}
\* octets and ports, some of them out of range
IpSamples == {<<127, 0, 0, 1>>, <<10, 0, 0, 255>>, <<256, 0, 0, 1>>}
PortSamples == {0, 3333, 65535, 65536}
\* "invalid"
InvalidText == <<105, 110, 118, 97, 108, 105, 100>>
\* remainders that are no socket address: "invalid", "", "127.0.0.1",
\* "127.0.0.1:", "127.0.0.1:3333x", "127.0.1:3333", ":3333"
MalformedAddrs ==
    {InvalidText,
     << >>,
     SubSeq(AddrText(<<127, 0, 0, 1>>, 3333), 1, 9),
     SubSeq(AddrText(<<127, 0, 0, 1>>, 3333), 1, 10),
     AddrText(<<127, 0, 0, 1>>, 3333) \o <<120>>,
     to_string(127) \o <<Dot>> \o to_string(0) \o <<Dot>> \o to_string(1)
         \o <<Colon>> \o to_string(3333),
     SubSeq(AddrText(<<127, 0, 0, 1>>, 3333), 10, 14)}

Urls ==
    {scheme \o AddrText(ip, port) :
         scheme \in Schemes, ip \in IpSamples, port \in PortSamples}
    \cup {scheme \o a : scheme \in Schemes, a \in MalformedAddrs}
    \cup {AddrText(<<127, 0, 0, 1>>, 3333)}

\* what parse_url returns for each URL of the sample
parse_url_of == [url \in Urls |-> StratumV2Client_parse_url(url)]

(***************************************************************************)
(* Wire messages.  A frame read from the transport is an EitherFrame: a    *)
(* HandShake frame or an Sv2 frame carrying a message type and a payload.  *)
(***************************************************************************)
\* an EitherFrame that is no StandardSv2Frame
HandShakeFrame == [frame |-> "HandShake"]
\* an Sv2 frame whose type / payload decodes neither as Common nor as Mining
GarbageFrame == [frame |-> "Sv2", msg |-> "Garbage"]

Sv2(m) == [frame |-> "Sv2"] @@ m

CommonTypes == {"SetupConnection", "SetupConnectionSuccess", "SetupConnectionError",
                "ChannelEndpointChanged"}
MiningTypes == {"OpenStandardMiningChannel", "OpenStandardMiningChannelSuccess",
                "OpenMiningChannelError", "NewMiningJob", "SetNewPrevHash", "SetTarget",
                "SubmitSharesStandard", "SubmitSharesSuccess", "SubmitSharesError",
                "SetCustomMiningJob", "CloseChannel"}

\* channel id granted by the pool
ChannelIds == {7}

\* version / merkle root the pool gives to job j in its v-th announcement
JobVersion(j, v) == 536870912 + 4 * j + 64 * (v - 1)
JobRoot(j, v) == Bytes32(16 * v + j)
\* a version VersionTemplate::new rejects
InvalidVersion == 0

NewMiningJobMsg(j, fut, ver, root) ==
    Sv2([msg |-> "NewMiningJob", channel_id |-> 7, job_id |-> j, is_future |-> fut,
         version |-> ver, merkle_root |-> root])

SetNewPrevHashMsg(j, v) ==
    Sv2([msg |-> "SetNewPrevHash", channel_id |-> 7, job_id |-> j,
         prev_hash |-> Bytes32(32 * v + 128 + j),
         min_ntime |-> 1700000000 + 600 * v + j,
         nbits |-> 436273151 - (16 * v + j)])

SetTargetMsg(t) == Sv2([msg |-> "SetTarget", channel_id |-> 7, maximum_target |-> t])

Plain(name) == Sv2([msg |-> name])

OpenSuccessMsg(c) ==
    Sv2([msg |-> "OpenStandardMiningChannelSuccess", channel_id |-> c])

(***************************************************************************)
(* Frame decoding (frame.try_into::<StdFrame>(), then TryFrom for          *)
(* CommonMessages / Mining).                                               *)
(***************************************************************************)
IsStdFrame(f) == f.frame = "Sv2"
DecodesAsCommon(f) == IsStdFrame(f) /\ f.msg \in CommonTypes
DecodesAsMining(f) == IsStdFrame(f) /\ f.msg \in MiningTypes

(***************************************************************************)
(* messages.rs                                                             *)
(***************************************************************************)
\* VersionTemplate::new(base, gp_bits) succeeds
ValidVersion(base) == base # InvalidVersion

\* the same without the & 0xffff
gp_bits_unmasked(version_mask) ==
    IF IsSome(version_mask) THEN Unwrap(version_mask) \div 8192 ELSE 65535

\* ((mask >> 13) & 0xffff), or GeneralPurposeBits::full()
gp_bits(version_mask) ==
    IF IsSome(version_mask) THEN (Unwrap(version_mask) \div 8192) % 65536 ELSE 65535

job_to_template(job, prev_hash, current_target, version_mask) ==
    IF Len(job.merkle_root) # HashLen THEN Err("Invalid merkle root length")
    ELSE IF Len(prev_hash.prev_hash) # HashLen THEN Err("Invalid prev_hash length")
    ELSE IF ~ValidVersion(job.version) THEN Err("Invalid version")
    ELSE Ok([id |-> to_string(job.job_id),
             prev_blockhash |-> prev_hash.prev_hash,
             version |-> [base |-> job.version, gp_bits |-> gp_bits(version_mask)],
             bits |-> prev_hash.nbits,
             share_target |-> IF Len(current_target) = HashLen
                              THEN from_le_bytes(current_target)
                              ELSE TargetMAX,
             time |-> prev_hash.min_ntime,
             merkle_root |-> [kind |-> "Fixed", root |-> job.merkle_root]])

\* `version.to_consensus() as u32`: reinterpret the i32 as u32
TwoPow31 == 2147483647 + 1
as_u32(v) == IF v >= 0 THEN v ELSE (v + TwoPow31) + TwoPow31

\* share_to_submit with the nonce and the time of the share exchanged
share_to_submit_swapped(share, channel_id, sequence_number) ==
    LET parsed == parse_u32(share.job_id) IN
    IF ~parsed.ok THEN Err("Invalid job_id (not a u32)")
    ELSE Ok(Sv2([msg |-> "SubmitSharesStandard",
                 channel_id |-> channel_id,
                 sequence_number |-> sequence_number,
                 job_id |-> parsed.val,
                 nonce |-> share.time,
                 ntime |-> share.nonce,
                 version |-> as_u32(share.version)]))

share_to_submit(share, channel_id, sequence_number) ==
    LET parsed == parse_u32(share.job_id) IN
    IF ~parsed.ok THEN Err("Invalid job_id (not a u32)")
    ELSE Ok(Sv2([msg |-> "SubmitSharesStandard",
                 channel_id |-> channel_id,
                 sequence_number |-> sequence_number,
                 job_id |-> parsed.val,
                 nonce |-> share.nonce,
                 ntime |-> share.time,
                 version |-> as_u32(share.version)]))

(***************************************************************************)
(* state.rs: ProtocolState                                                 *)
(***************************************************************************)
SetMin(S) == CHOOSE x \in S : \A y \in S : x <= y
SetMax(S) == CHOOSE x \in S : \A y \in S : y <= x

RECURSIVE Lowest(_, _)
\* the first n elements of the sorted key list: job_ids[..n]
Lowest(S, n) ==
    IF n = 0 \/ S = {} THEN {}
    ELSE {SetMin(S)} \cup Lowest(S \ {SetMin(S)}, n - 1)

\* HashMap::insert(job.job_id, job)
store_future_job(jobs, job) ==
    [j \in (DOMAIN jobs) \cup {job.job_id} |-> IF j = job.job_id THEN job ELSE jobs[j]]

\* get_future_job that falls back to the held job with the largest id
get_future_job_or_latest(jobs, job_id) ==
    IF job_id \in DOMAIN jobs THEN Some(jobs[job_id])
    ELSE IF DOMAIN jobs # {} THEN Some(jobs[SetMax(DOMAIN jobs)])
    ELSE None

\* HashMap::get(&job_id)
get_future_job(jobs, job_id) ==
    IF job_id \in DOMAIN jobs THEN Some(jobs[job_id]) ELSE None

clean_old_jobs(jobs, keep_count) ==
    IF Cardinality(DOMAIN jobs) > keep_count
    THEN LET to_remove == Cardinality(DOMAIN jobs) - keep_count
             removed == Lowest(DOMAIN jobs, to_remove)
         IN [j \in (DOMAIN jobs) \ removed |-> jobs[j]]
    ELSE jobs

(***************************************************************************)
(* mujina-dissect, serial.rs: frame assembly.  Timestamps are integers in  *)
(* units of 100 us; bytes are integers 0..255.                             *)
(***************************************************************************)
\* FrameAssembler::new: timeout_seconds = 0.001
timeout_seconds == 10

\* AssemblyState
Idle == [tag |-> "Idle"]
FoundFirst(timestamp) == [tag |-> "FoundFirst", start_time |-> timestamp]
Collecting(start_time, data, expected_len) ==
    [tag |-> "Collecting", start_time |-> start_time, data |-> data,
     expected_len |-> expected_len]

\* impl From<Channel> for Direction
Direction_from(channel) ==
    IF channel = "CI" THEN "HostToChip" ELSE "ChipToHost"

\* FrameAssembler::new
FrameAssembler_new(direction) ==
    [direction |-> direction, state |-> Idle, last_event_time |-> 0]

\* The first and the second preamble byte of a direction.
FirstPreamble(direction) == IF direction = "HostToChip" THEN 85 ELSE 170
SecondPreamble(direction) == IF direction = "HostToChip" THEN 170 ELSE 85

\* FrameAssembler::process_byte, state Idle
process_byte_idle(asm, byte, timestamp) ==
    [asm |-> IF byte = FirstPreamble(asm.direction)
             THEN [asm EXCEPT !.state = FoundFirst(timestamp)]
             ELSE asm,
     frame |-> None]

\* The completion test that waits for the nine bytes of a longer response.
complete_from_nine(direction, data, expected_len) ==
    IF direction = "HostToChip"
    THEN IsSome(expected_len) /\ Len(data) >= Unwrap(expected_len)
    ELSE Len(data) >= 9 /\ (Len(data) >= 20 \/ Len(data) \in {6, 7, 9, 10, 11})

\* The completion test of process_byte on the data collected so far.
complete(direction, data, expected_len) ==
    IF direction = "HostToChip"
    THEN IsSome(expected_len) /\ Len(data) >= Unwrap(expected_len)
    ELSE Len(data) >= 7 /\ (Len(data) >= 20 \/ Len(data) \in {6, 7, 9, 10, 11})

\* FrameAssembler::process_byte, state Collecting
process_byte_collecting(asm, byte, timestamp, has_error) ==
    LET data == Append(asm.state.data, byte)
        expected_len ==
            IF /\ asm.direction = "HostToChip"
               /\ Len(data) = 4
               /\ ~IsSome(asm.state.expected_len)
            THEN Some(byte)
            ELSE asm.state.expected_len
    IN IF complete(asm.direction, data, expected_len)
       THEN [asm |-> [asm EXCEPT !.state = Idle],
             frame |-> Some([direction |-> asm.direction,
                             start_time |-> asm.state.start_time,
                             end_time |-> timestamp,
                             data |-> data,
                             has_errors |-> has_error])]
       ELSE [asm |-> [asm EXCEPT !.state =
                          Collecting(asm.state.start_time, data, expected_len)],
             frame |-> None]

\* FrameAssembler::process_byte that drops a byte failing as second preamble
process_byte_drops_failed(asm, byte, timestamp, has_error) ==
    CASE asm.state.tag = "Idle" -> process_byte_idle(asm, byte, timestamp)
      [] asm.state.tag = "FoundFirst" ->
            IF byte = SecondPreamble(asm.direction)
            THEN [asm |-> [asm EXCEPT !.state =
                               Collecting(asm.state.start_time,
                                          <<FirstPreamble(asm.direction), byte>>,
                                          None)],
                  frame |-> None]
            ELSE [asm |-> [asm EXCEPT !.state = Idle], frame |-> None]
      [] asm.state.tag = "Collecting" ->
            process_byte_collecting(asm, byte, timestamp, has_error)

\* FrameAssembler::process_byte
process_byte(asm, byte, timestamp, has_error) ==
    CASE asm.state.tag = "Idle" -> process_byte_idle(asm, byte, timestamp)
      [] asm.state.tag = "FoundFirst" ->
            IF byte = SecondPreamble(asm.direction)
            THEN [asm |-> [asm EXCEPT !.state =
                               Collecting(asm.state.start_time,
                                          <<FirstPreamble(asm.direction), byte>>,
                                          None)],
                  frame |-> None]
            ELSE \* back to idle, and the byte is processed again in that state
                 process_byte_idle([asm EXCEPT !.state = Idle], byte, timestamp)
      [] asm.state.tag = "Collecting" ->
            process_byte_collecting(asm, byte, timestamp, has_error)

\* FrameAssembler::timeout (FrameAssembler::flush is the same call)
timeout(asm) ==
    IF asm.state.tag = "Collecting"
    THEN Some([direction |-> asm.direction,
               start_time |-> asm.state.start_time,
               end_time |-> asm.last_event_time,
               data |-> asm.state.data,
               has_errors |-> TRUE])
    ELSE None

\* FrameAssembler::process that leaves the state as it is on a timeout
FrameAssembler_process_no_reset(asm, event) ==
    IF /\ event.timestamp - asm.last_event_time > timeout_seconds
       /\ IsSome(timeout(asm))
    THEN [asm |-> process_byte([asm EXCEPT !.last_event_time = event.timestamp],
                               event.data, event.timestamp, event.error).asm,
          frame |-> timeout(asm)]
    ELSE process_byte([asm EXCEPT !.last_event_time = event.timestamp],
                      event.data, event.timestamp, event.error)

\* FrameAssembler::process
FrameAssembler_process(asm, event) ==
    IF /\ event.timestamp - asm.last_event_time > timeout_seconds
       /\ IsSome(timeout(asm))
    THEN [asm |-> process_byte([asm EXCEPT !.state = Idle,
                                           !.last_event_time = event.timestamp],
                               event.data, event.timestamp, event.error).asm,
          frame |-> timeout(asm)]
    ELSE process_byte([asm EXCEPT !.last_event_time = event.timestamp],
                      event.data, event.timestamp, event.error)

(***************************************************************************)
(* mujina-dissect, dissect.rs: decoding of assembled frames.               *)
(***************************************************************************)
\* crc5_is_valid, crc16_is_valid
crc5_is_valid(data) == TRUE
crc16_is_valid(data, expected_crc) == TRUE

\* TypeFlags::from_byte
TypeFlags_from_byte(byte) ==
    [is_work |-> byte >= 128,
     is_broadcast |-> (byte \div 64) % 2 = 1,
     cmd |-> byte % 32]

\* u32::from_le_bytes and u16::from_le_bytes on the bytes d[i..i+n-1]
\* (indices as in the source, from 0)
RECURSIVE le_bytes(_, _, _)
le_bytes(d, i, n) ==
    IF n = 0 THEN 0 ELSE d[i + 1] + 256 * le_bytes(d, i + 1, n - 1)

\* data[i] and data[a..b] with the source's indices
At(d, i) == d[i + 1]
Slice(d, a, b) == SubSeq(d, a + 1, b)

Invalid(msg, args) == [kind |-> "Invalid", msg |-> msg, args |-> args]
Command(cmd) == [kind |-> "Command", cmd |-> cmd]
Response(rsp) == [kind |-> "Response", rsp |-> rsp]

\* decode_command
decode_command(type_flags, data) ==
    IF Len(data) < 5 THEN Invalid("Command too short", << >>)
    ELSE CASE type_flags.cmd = 0 /\ ~type_flags.is_broadcast ->
                Command([name |-> "SetChipAddress", addr |-> At(data, 4)])
           [] type_flags.cmd = 1 /\ ~type_flags.is_broadcast ->
                IF Len(data) >= 10
                THEN Command([name |-> "WriteRegister",
                              chip_addr |-> At(data, 4),
                              reg_addr |-> At(data, 5),
                              value |-> le_bytes(data, 6, 4)])
                ELSE Invalid("WriteRegister too short", << >>)
           [] type_flags.cmd = 2 /\ ~type_flags.is_broadcast ->
                IF Len(data) >= 6
                THEN Command([name |-> "ReadRegister",
                              chip_addr |-> At(data, 4),
                              reg_addr |-> At(data, 5)])
                ELSE Invalid("ReadRegister too short", << >>)
           [] type_flags.cmd = 1 /\ type_flags.is_broadcast ->
                IF Len(data) >= 9
                THEN Command([name |-> "WriteRegisterBroadcast",
                              reg_addr |-> At(data, 4),
                              value |-> le_bytes(data, 5, 4)])
                ELSE Invalid("WriteRegisterBroadcast too short", << >>)
           [] type_flags.cmd = 2 /\ type_flags.is_broadcast ->
                Command([name |-> "ReadRegisterBroadcast", reg_addr |-> At(data, 4)])
           [] OTHER ->
                Command([name |-> "Unknown",
                         type_flags |-> At(data, 2),
                         payload |-> Slice(data, 4, Len(data))])

\* The midstates a midstate-format job carries.
RECURSIVE Midstates(_, _, _)
Midstates(data, i, midstate_num) ==
    IF i >= midstate_num THEN << >>
    ELSE LET start == 17 + i * 32
             end == start + 32
         IN (IF end <= Len(data) - 2 THEN <<Slice(data, start, end)>> ELSE << >>)
            \o Midstates(data, i + 1, midstate_num)

\* decode_mining_job
decode_mining_job(data, length) ==
    IF length = 148 /\ Len(data) >= 148
    THEN Command([name |-> "MiningJob", format |-> "Full",
                  job_id |-> At(data, 4),
                  nbits |-> le_bytes(data, 5, 4),
                  ntime |-> le_bytes(data, 9, 4),
                  merkle_root_lsw |-> le_bytes(data, 13, 4),
                  midstates |-> <<Slice(data, 17, 49), Slice(data, 49, 81),
                                  Slice(data, 81, 113), Slice(data, 113, 145)>>])
    ELSE IF Len(data) >= 18
         THEN LET midstate_num == At(data, 5)
                  expected_len == 18 + midstate_num * 32
              IN IF Len(data) >= expected_len
                 THEN Command([name |-> "MiningJob", format |-> "Midstate",
                               job_id |-> At(data, 4),
                               midstate_num |-> midstate_num,
                               nbits |-> le_bytes(data, 6, 4),
                               ntime |-> le_bytes(data, 10, 4),
                               merkle_root_lsw |-> le_bytes(data, 14, 4),
                               midstates |-> Midstates(data, 0, midstate_num)])
                 ELSE Invalid("Midstate job too short", <<expected_len, Len(data)>>)
         ELSE Invalid("Job frame too short", << >>)

\* dissect_command: <<content, crc_status>>
dissect_command(data) ==
    IF Len(data) < 5
    THEN <<Invalid("Frame too short", <<Len(data)>>), "NotChecked">>
    ELSE IF At(data, 0) # 85 \/ At(data, 1) # 170
    THEN <<Invalid("Invalid preamble", << >>), "NotChecked">>
    ELSE LET type_flags == TypeFlags_from_byte(At(data, 2))
             length == At(data, 3)
             crc_status ==
                 IF type_flags.is_work
                 THEN IF Len(data) >= length /\ length >= 2
                      THEN IF crc16_is_valid(Slice(data, 0, length - 2),
                                             Slice(data, length - 2, length))
                           THEN "Valid" ELSE "Invalid"
                      ELSE "NotChecked"
                 ELSE IF Len(data) >= length
                      THEN IF crc5_is_valid(Slice(data, 0, length))
                           THEN "Valid" ELSE "Invalid"
                      ELSE "NotChecked"
         IN IF Len(data) < length
            THEN <<Invalid("Incomplete frame", <<length, Len(data)>>), "NotChecked">>
            ELSE <<IF type_flags.is_work
                   THEN decode_mining_job(data, length)
                   ELSE decode_command(type_flags, data),
                   crc_status>>

\* ResponseType::from_u8
ResponseType_from_u8(value) ==
    CASE value = 0 -> "RegisterRead"
      [] value = 2 -> "NonceFound"
      [] value = 6 -> "Version"
      [] OTHER -> "RegisterRead"

\* dissect_response: <<content, crc_status>>
dissect_response(data) ==
    IF Len(data) < 3
    THEN <<Invalid("Response too short", <<Len(data)>>), "NotChecked">>
    ELSE IF At(data, 0) # 170 \/ At(data, 1) # 85
    THEN <<Invalid("Invalid response preamble", << >>), "NotChecked">>
    ELSE LET crc_byte == At(data, Len(data) - 1)
             response_type == ResponseType_from_u8((crc_byte \div 32) % 8)
             crc_status == IF crc5_is_valid(data) THEN "Valid" ELSE "Invalid"
         IN CASE response_type = "RegisterRead" ->
                   IF Len(data) >= 9
                   THEN <<Response([name |-> "RegisterValue",
                                    chip_id |-> <<At(data, 2), At(data, 3)>>,
                                    reg_addr |-> At(data, 4),
                                    value |-> le_bytes(data, 5, 4)]),
                          crc_status>>
                   ELSE <<Invalid("Register read response too short", << >>),
                          crc_status>>
              [] response_type = "NonceFound" ->
                   IF Len(data) >= 8
                   THEN <<Response([name |-> "NonceFound",
                                    job_id |-> At(data, 2),
                                    nonce |-> le_bytes(data, 3, 4),
                                    midstate_idx |->
                                        IF Len(data) >= 11 THEN Some(At(data, 7))
                                        ELSE None,
                                    core_id |->
                                        IF Len(data) >= 11
                                        THEN Some(le_bytes(data, 8, 2))
                                        ELSE None]),
                          crc_status>>
                   ELSE <<Invalid("Nonce response too short", << >>), crc_status>>
              [] response_type = "Version" ->
                   IF Len(data) >= 7
                   THEN <<Response([name |-> "Version",
                                    version |-> le_bytes(data, 2, 4)]),
                          crc_status>>
                   ELSE <<Invalid("Version response too short", << >>), crc_status>>

\* dissect_serial_frame
dissect_serial_frame(frame) ==
    LET r == IF frame.direction = "HostToChip"
             THEN dissect_command(frame.data)
             ELSE dissect_response(frame.data)
    IN [timestamp |-> frame.start_time,
        direction |-> frame.direction,
        raw_data |-> frame.data,
        content |-> r[1],
        crc_status |-> r[2]]

(***************************************************************************)
(* mujina-dissect, i2c.rs: transaction assembly and grouping.  An I2cEvent *)
(* is [timestamp, event_type, address, data, read, ack] with address and   *)
(* data options.                                                           *)
(***************************************************************************)
\* I2cState
I2cState_Idle == [tag |-> "Idle"]
WaitingForAddress(start_time) == [tag |-> "WaitingForAddress", start_time |-> start_time]
CollectingData(start_time, address, is_read, data, all_acks) ==
    [tag |-> "CollectingData", start_time |-> start_time, address |-> address,
     is_read |-> is_read, data |-> data, all_acks |-> all_acks]

\* I2cTransaction
I2cTransaction(start_time, end_time, address, is_read, data, success) ==
    [start_time |-> start_time, end_time |-> end_time, address |-> address,
     is_read |-> is_read, data |-> data, success |-> success]

\* I2cAssembler::process in state CollectingData on a repeated START
process_repeated_start(asm, event) ==
    [state |-> WaitingForAddress(event.timestamp),
     transactions |->
         IF asm.state.data # << >>
         THEN Append(asm.transactions,
                     I2cTransaction(asm.state.start_time, event.timestamp,
                                    asm.state.address, asm.state.is_read,
                                    asm.state.data, asm.state.all_acks))
         ELSE asm.transactions]

\* I2cAssembler::process on the assembler [state, transactions]
I2cAssembler_process(asm, event) ==
    CASE asm.state.tag = "Idle" ->
            IF event.event_type = "Start"
            THEN [asm EXCEPT !.state = WaitingForAddress(event.timestamp)]
            ELSE asm
      [] asm.state.tag = "WaitingForAddress" ->
            IF event.event_type = "Address"
            THEN IF IsSome(event.address)
                 THEN [asm EXCEPT !.state =
                           CollectingData(asm.state.start_time, Unwrap(event.address),
                                          event.read, << >>, event.ack)]
                 ELSE [asm EXCEPT !.state = I2cState_Idle]
            ELSE IF event.event_type = "Stop"
            THEN [asm EXCEPT !.state = I2cState_Idle]
            ELSE asm
      [] asm.state.tag = "CollectingData" ->
            IF event.event_type = "Data"
            THEN IF IsSome(event.data)
                 THEN [asm EXCEPT !.state.data = Append(@, Unwrap(event.data)),
                                  !.state.all_acks = @ /\ event.ack]
                 ELSE asm
            ELSE IF event.event_type = "Stop"
            THEN [state |-> I2cState_Idle,
                  transactions |->
                      Append(asm.transactions,
                             I2cTransaction(asm.state.start_time, event.timestamp,
                                            asm.state.address, asm.state.is_read,
                                            asm.state.data, asm.state.all_acks))]
            ELSE IF event.event_type = "Start"
            THEN process_repeated_start(asm, event)
            ELSE asm

\* I2cAssembler::flush
I2cAssembler_flush(asm) ==
    [state |-> I2cState_Idle,
     transactions |->
         IF asm.state.tag = "CollectingData" /\ asm.state.data # << >>
         THEN Append(asm.transactions,
                     I2cTransaction(asm.state.start_time, asm.state.start_time,
                                    asm.state.address, asm.state.is_read,
                                    asm.state.data, FALSE))
         ELSE asm.transactions]

\* I2cOperation
I2cOperation(start_time, end_time, address, register, write_data, read_data) ==
    [start_time |-> start_time, end_time |-> end_time, address |-> address,
     register |-> register, write_data |-> write_data, read_data |-> read_data]

\* the fused operation with all the written bytes as write_data
fused_operation_whole_write(t1, t2) ==
    I2cOperation(t1.start_time, t2.end_time, t1.address,
                 Some(t1.data[1]),
                 Some(t1.data),
                 Some(t2.data))

\* the operation group_transactions builds of a write and the read after it
fused_operation(t1, t2) ==
    I2cOperation(t1.start_time, t2.end_time, t1.address,
                 Some(t1.data[1]),
                 IF Len(t1.data) > 1 THEN Some(Tail(t1.data)) ELSE None,
                 Some(t2.data))

\* the operation group_transactions builds of a single transaction
single_operation(t1) ==
    I2cOperation(t1.start_time, t1.end_time, t1.address,
                 IF t1.data # << >> THEN Some(t1.data[1]) ELSE None,
                 IF ~t1.is_read /\ t1.data # << >> THEN Some(t1.data) ELSE None,
                 IF t1.is_read THEN Some(t1.data) ELSE None)

RECURSIVE group_from(_, _)
\* the while loop of group_transactions, from index i (counted from 1)
group_from(ts, i) ==
    IF i > Len(ts) THEN << >>
    ELSE IF /\ ~ts[i].is_read
            /\ Len(ts[i].data) >= 1
            /\ i + 1 <= Len(ts)
            /\ ts[i + 1].is_read
            /\ ts[i + 1].address = ts[i].address
    THEN <<fused_operation(ts[i], ts[i + 1])>> \o group_from(ts, i + 2)
    ELSE <<single_operation(ts[i])>> \o group_from(ts, i + 1)

\* group_transactions
group_transactions(ts) == group_from(ts, 1)

(***************************************************************************)
(* State of one StratumV2Source::run.                                      *)
(***************************************************************************)
VARIABLES
    config,       \* StratumV2Config: [url, worker_ok]
    pc,           \* position of run
    attempt,      \* loop variable of connect_with_retry (0 outside of it)
    last_connect, \* result of the last TcpStream::connect under its timeout
    state,        \* self.state: ProtocolState
    conn_open,    \* the transport's frame channels are open
    pool_rx,      \* client.receiver: frames from the pool, not yet read
    pool_tx,      \* client.sender: every frame sent to the pool, in order
    command_rx,   \* self.command_rx: commands from the scheduler, not yet read
    cmds_issued,  \* number of commands the scheduler has issued
    events,       \* self.event_tx: the events sent and not yet received
    emitted_from, \* for each of them, the job, prev-hash and target it was built from
    emit_count,   \* how many events of each <<type, template id>> were sent so far
    n_events,     \* how many events were sent so far
    event_open,   \* the scheduler still holds the event receiver
    shutdown,     \* self.shutdown is cancelled
    disabled,     \* select! branches disabled in the current loop iteration
    sending,      \* the handler suspended in event_tx.send, if any
    \* mujina-dissect: one MultiChannelAssembler and the capture it is fed
    ci_assembler, \* MultiChannelAssembler.ci_assembler: FrameAssembler
    ro_assembler, \* MultiChannelAssembler.ro_assembler: FrameAssembler
    frames,       \* MultiChannelAssembler.frames: assembled, not yet taken
    capture,      \* the serial events of the capture: [channel, data]
    processed,    \* how many of them were processed
    now,          \* timestamp of the last event processed, in units of 100 us
    flushed,      \* flush was called at the end of the capture
    dissected,    \* the DissectedFrames produced so far, in order
    assembled,    \* every frame the MultiChannelAssembler has queued, in order
    ci_alone,     \* a FrameAssembler fed the CI events of the capture alone,
                  \* and the frames it returned: [asm, frames]
    ro_alone,     \* the same for the RO events
    \* mujina-dissect: one I2cAssembler and the I2C events it is fed
    i2c_state,    \* I2cAssembler.state: I2cState
    transactions, \* I2cAssembler.transactions: completed, not yet taken
    i2c_capture,  \* the I2C events of the capture
    i2c_processed, \* how many of them were processed
    i2c_flushed,  \* I2cAssembler::flush was called
    taken,        \* the transactions taken with next_transaction, in order
    operations    \* the result of group_transactions on them, once called

\* The dissector's variables; a run of the Stratum V2 source leaves them alone.
i2c == <<i2c_state, transactions, i2c_capture, i2c_processed, i2c_flushed, taken,
         operations>>
alone == <<ci_alone, ro_alone>>
dissector == <<ci_assembler, ro_assembler, frames, capture, processed, now, flushed,
               dissected, assembled, alone, i2c>>

\* The variables of a run of the Stratum V2 source; the dissector leaves them alone.
stratum == <<config, pc, attempt, last_connect, state, conn_open, pool_rx, pool_tx,
             command_rx, cmds_issued, events, emitted_from, emit_count, n_events,
             event_open, shutdown, disabled, sending>>

vars == <<stratum, dissector>>

\* ProtocolState::new
ProtocolState_new ==
    [channel_id |-> None,
     sequence_number |-> 0,
     future_jobs |-> << >>,
     prev_hash |-> None,
     current_target |-> None,
     version_mask |-> None]

Configs == [url : {PoolUrl, StratumV1Url}, worker_ok : BOOLEAN]

\* MultiChannelAssembler::new, with no capture to process
MultiChannelAssembler_new ==
    /\ ci_assembler = FrameAssembler_new("HostToChip")
    /\ ro_assembler = FrameAssembler_new("ChipToHost")
    /\ frames = << >>
    /\ processed = 0
    /\ now = 0
    /\ flushed = FALSE
    /\ dissected = << >>
    /\ assembled = << >>

\* the two FrameAssemblers that are fed one channel each
FrameAssemblers_alone ==
    /\ ci_alone = [asm |-> FrameAssembler_new("HostToChip"), frames |-> << >>]
    /\ ro_alone = [asm |-> FrameAssembler_new("ChipToHost"), frames |-> << >>]

\* I2cAssembler::new, with nothing taken or grouped yet
I2cAssembler_new ==
    /\ i2c_state = I2cState_Idle
    /\ transactions = << >>
    /\ i2c_processed = 0
    /\ i2c_flushed = FALSE
    /\ taken = << >>
    /\ operations = None

\* the dissector before a capture is read
Dissector_new ==
    /\ MultiChannelAssembler_new
    /\ FrameAssemblers_alone
    /\ I2cAssembler_new

\* StratumV2Source::new: the source before run is called
StratumV2Source_new ==
    /\ pc = "start"
    /\ attempt = 0
    /\ last_connect = "none"
    /\ state = ProtocolState_new
    /\ conn_open = FALSE
    /\ pool_rx = << >>
    /\ pool_tx = << >>
    /\ command_rx = << >>
    /\ cmds_issued = 0
    /\ events = << >>
    /\ emitted_from = << >>
    /\ emit_count = << >>
    /\ n_events = 0
    /\ event_open = TRUE
    /\ shutdown = FALSE
    /\ disabled = {}
    /\ sending = None

Init ==
    /\ Dissector_new
    /\ capture = << >>
    /\ i2c_capture = << >>
    /\ StratumV2Source_new
    /\ config \in Configs

Returned == pc \in {"returned_ok", "returned_err"}
InMainLoop == pc \in {"main", "sending"}

(***************************************************************************)
(* client.rs: connect, setup_connection, open_standard_mining_channel      *)
(***************************************************************************)
\* StratumV2Client::connect up to parse_url
parse_url ==
    /\ pc = "start"
    /\ pc' = IF parse_url_of[config.url].ok THEN "tcp" ELSE "returned_err"
    /\ attempt' = IF parse_url_of[config.url].ok THEN 1 ELSE 0
    /\ UNCHANGED <<config, dissector, last_connect, state, conn_open, pool_rx, pool_tx, command_rx,
                   cmds_issued, events, emitted_from, emit_count, n_events, event_open,
                   shutdown, disabled, sending>>

\* connect_with_retry that sleeps and retries after the last attempt as well
connect_with_retry_sleeps_last(Outcomes) ==
    /\ pc = "tcp"
    /\ \E o \in Outcomes :
          /\ last_connect' = o
          /\ pc' = IF o = "connected" THEN "noise"
                   ELSE IF attempt <= max_retries THEN "backoff"
                   ELSE "returned_err"
          /\ attempt' = IF o # "connected" /\ attempt <= max_retries THEN attempt ELSE 0
    /\ UNCHANGED <<config, dissector, state, conn_open, pool_rx, pool_tx, command_rx,
                   cmds_issued, events, emitted_from, emit_count, n_events, event_open,
                   shutdown, disabled, sending>>

\* one iteration of the loop of connect_with_retry up to the sleep
connect_with_retry(Outcomes) ==
    /\ pc = "tcp"
    /\ \E o \in Outcomes :
          /\ last_connect' = o
          /\ pc' = IF o = "connected" THEN "noise"
                   ELSE IF attempt < max_retries THEN "backoff"
                   ELSE "returned_err"
          \* the loop variable ends with the function
          /\ attempt' = IF o # "connected" /\ attempt < max_retries THEN attempt ELSE 0
    /\ UNCHANGED <<config, dissector, state, conn_open, pool_rx, pool_tx, command_rx,
                   cmds_issued, events, emitted_from, emit_count, n_events, event_open,
                   shutdown, disabled, sending>>

\* tokio::time::sleep(retry_delay) and the next iteration
retry_delay ==
    /\ pc = "backoff"
    /\ attempt' = attempt + 1
    /\ pc' = "tcp"
    /\ UNCHANGED <<config, dissector, last_connect, state, conn_open, pool_rx, pool_tx, command_rx,
                   cmds_issued, events, emitted_from, emit_count, n_events, event_open,
                   shutdown, disabled, sending>>

\* Connection::new(socket, Initiator)
noise_handshake(Outcomes) ==
    /\ pc = "noise"
    /\ \E o \in Outcomes :
          /\ pc' = IF o = "ok" THEN "setup_send" ELSE "returned_err"
          /\ conn_open' = (o = "ok")
    /\ UNCHANGED <<config, dissector, last_connect, attempt, state, pool_rx, pool_tx, command_rx,
                   cmds_issued, events, emitted_from, emit_count, n_events, event_open,
                   shutdown, disabled, sending>>

\* setup_connection up to sender.send
setup_connection_send ==
    /\ pc = "setup_send"
    /\ IF config.worker_ok /\ conn_open
       THEN /\ pool_tx' = Append(pool_tx, Plain("SetupConnection"))
            /\ pc' = "setup_recv"
       ELSE /\ pool_tx' = pool_tx
            /\ pc' = "returned_err"
    /\ UNCHANGED <<config, dissector, last_connect, attempt, state, conn_open, pool_rx, command_rx,
                   cmds_issued, events, emitted_from, emit_count, n_events, event_open,
                   shutdown, disabled, sending>>

\* setup_connection_recv that goes on after any frame that decodes as Common
setup_connection_recv_lenient ==
    /\ pc = "setup_recv"
    /\ \/ /\ pool_rx # << >>
          /\ pool_rx' = Tail(pool_rx)
          /\ pc' = IF DecodesAsCommon(Head(pool_rx)) THEN "open_send" ELSE "returned_err"
       \/ /\ pool_rx = << >>
          /\ ~conn_open
          /\ pool_rx' = pool_rx
          /\ pc' = "returned_err"
    /\ UNCHANGED <<config, dissector, last_connect, attempt, state, conn_open, pool_tx, command_rx,
                   cmds_issued, events, emitted_from, emit_count, n_events, event_open,
                   shutdown, disabled, sending>>

\* setup_connection from receiver.recv on
setup_connection_recv ==
    /\ pc = "setup_recv"
    /\ \/ /\ pool_rx # << >>
          /\ pool_rx' = Tail(pool_rx)
          /\ pc' = IF DecodesAsCommon(Head(pool_rx))
                      /\ Head(pool_rx).msg = "SetupConnectionSuccess"
                   THEN "open_send" ELSE "returned_err"
       \/ /\ pool_rx = << >>
          /\ ~conn_open
          /\ pool_rx' = pool_rx
          /\ pc' = "returned_err"
    /\ UNCHANGED <<config, dissector, last_connect, attempt, state, conn_open, pool_tx, command_rx,
                   cmds_issued, events, emitted_from, emit_count, n_events, event_open,
                   shutdown, disabled, sending>>

\* open_standard_mining_channel up to sender.send
open_standard_mining_channel_send ==
    /\ pc = "open_send"
    /\ IF config.worker_ok /\ conn_open
       THEN /\ pool_tx' = Append(pool_tx, Plain("OpenStandardMiningChannel"))
            /\ pc' = "open_recv"
       ELSE /\ pool_tx' = pool_tx
            /\ pc' = "returned_err"
    /\ UNCHANGED <<config, dissector, last_connect, attempt, state, conn_open, pool_rx, command_rx,
                   cmds_issued, events, emitted_from, emit_count, n_events, event_open,
                   shutdown, disabled, sending>>

\* open_standard_mining_channel_recv that takes OpenMiningChannelError for a
\* success without a channel id and goes on with channel 0
open_standard_mining_channel_recv_lenient ==
    /\ pc = "open_recv"
    /\ \/ /\ pool_rx # << >>
          /\ pool_rx' = Tail(pool_rx)
          /\ IF DecodesAsMining(Head(pool_rx))
                /\ Head(pool_rx).msg = "OpenStandardMiningChannelSuccess"
             THEN /\ state' = [state EXCEPT !.channel_id = Some(Head(pool_rx).channel_id)]
                  /\ pc' = "main"
             ELSE IF DecodesAsMining(Head(pool_rx))
                     /\ Head(pool_rx).msg = "OpenMiningChannelError"
             THEN /\ state' = [state EXCEPT !.channel_id = Some(0)]
                  /\ pc' = "main"
             ELSE /\ state' = state
                  /\ pc' = "returned_err"
       \/ /\ pool_rx = << >>
          /\ ~conn_open
          /\ pool_rx' = pool_rx
          /\ state' = state
          /\ pc' = "returned_err"
    /\ UNCHANGED <<config, dissector, last_connect, attempt, conn_open, pool_tx, command_rx,
                   cmds_issued, events, emitted_from, emit_count, n_events, event_open,
                   shutdown, disabled, sending>>

\* open_standard_mining_channel from receiver.recv on, and
\* `self.state.channel_id = Some(channel_id)` of run
open_standard_mining_channel_recv ==
    /\ pc = "open_recv"
    /\ \/ /\ pool_rx # << >>
          /\ pool_rx' = Tail(pool_rx)
          /\ IF DecodesAsMining(Head(pool_rx))
                /\ Head(pool_rx).msg = "OpenStandardMiningChannelSuccess"
             THEN /\ state' = [state EXCEPT !.channel_id = Some(Head(pool_rx).channel_id)]
                  /\ pc' = "main"
             ELSE /\ state' = state
                  /\ pc' = "returned_err"
       \/ /\ pool_rx = << >>
          /\ ~conn_open
          /\ pool_rx' = pool_rx
          /\ state' = state
          /\ pc' = "returned_err"
    /\ UNCHANGED <<config, dissector, last_connect, attempt, conn_open, pool_tx, command_rx,
                   cmds_issued, events, emitted_from, emit_count, n_events, event_open,
                   shutdown, disabled, sending>>

(***************************************************************************)
(* mod.rs: the handlers.  A handler is computed up to its event_tx.send:   *)
(* `st` is the state when the send starts (or when the handler returns     *)
(* without sending), `emit` the event to send, `from` what the event was   *)
(* built from, `err` whether the handler already failed, and `clean`       *)
(* whether clean_old_jobs follows a send that succeeds.                    *)
(***************************************************************************)
NoSend(st, failed, cl) ==
    [st |-> st, emit |-> None, from |-> None, err |-> failed, clean |-> cl]

\* self.state.current_target.as_deref().unwrap_or(&[0xFF; 32])
target_or_default(st) ==
    IF IsSome(st.current_target) THEN Unwrap(st.current_target) ELSE Bytes32(255)

\* activate_job that takes the job out of future_jobs when it emits ReplaceJob
activate_job_consumes(st, job_id, cl) ==
    LET job == get_future_job(st.future_jobs, job_id) IN
    IF ~IsSome(job) THEN NoSend(st, FALSE, cl)
    ELSE IF ~(IsSome(st.prev_hash) /\ Unwrap(st.prev_hash).job_id = job_id)
    THEN NoSend(st, FALSE, cl)
    ELSE LET template == job_to_template(Unwrap(job), Unwrap(st.prev_hash),
                                         target_or_default(st), st.version_mask)
         IN IF ~template.ok THEN NoSend(st, TRUE, cl)
            ELSE [st |-> [st EXCEPT !.future_jobs =
                              [j \in (DOMAIN @) \ {job_id} |-> @[j]]],
                  emit |-> Some([type |-> "ReplaceJob", template |-> template.val]),
                  from |-> Some([job |-> Unwrap(job), prev_hash |-> Unwrap(st.prev_hash),
                                 target |-> st.current_target]),
                  err |-> FALSE,
                  clean |-> cl]

activate_job(st, job_id, cl) ==
    LET job == get_future_job(st.future_jobs, job_id) IN
    IF ~IsSome(job) THEN NoSend(st, FALSE, cl)
    ELSE IF ~(IsSome(st.prev_hash) /\ Unwrap(st.prev_hash).job_id = job_id)
    THEN NoSend(st, FALSE, cl)
    ELSE LET template == job_to_template(Unwrap(job), Unwrap(st.prev_hash),
                                         target_or_default(st), st.version_mask)
         IN IF ~template.ok THEN NoSend(st, TRUE, cl)
            ELSE [st |-> st,
                  emit |-> Some([type |-> "ReplaceJob", template |-> template.val]),
                  from |-> Some([job |-> Unwrap(job), prev_hash |-> Unwrap(st.prev_hash),
                                 target |-> st.current_target]),
                  err |-> FALSE,
                  clean |-> cl]

\* handle_new_mining_job that stores a future job without trying to activate it
handle_new_mining_job_store_only(st, job) ==
    IF job.is_future
    THEN NoSend([st EXCEPT !.future_jobs = store_future_job(@, job)], FALSE, TRUE)
    ELSE IF IsSome(st.prev_hash)
         THEN LET template == job_to_template(job, Unwrap(st.prev_hash),
                                              target_or_default(st), st.version_mask)
              IN IF ~template.ok THEN NoSend(st, TRUE, TRUE)
                 ELSE [st |-> st,
                       emit |-> Some([type |-> "UpdateJob", template |-> template.val]),
                       from |-> Some([job |-> job, prev_hash |-> Unwrap(st.prev_hash),
                                      target |-> st.current_target]),
                       err |-> FALSE,
                       clean |-> TRUE]
         ELSE NoSend(st, FALSE, TRUE)

handle_new_mining_job(st, job) ==
    IF job.is_future
    THEN LET st1 == [st EXCEPT !.future_jobs = store_future_job(@, job)] IN
         IF IsSome(st1.prev_hash) /\ Unwrap(st1.prev_hash).job_id = job.job_id
         THEN activate_job(st1, job.job_id, TRUE)
         ELSE NoSend(st1, FALSE, TRUE)
    ELSE IF IsSome(st.prev_hash)
         THEN LET template == job_to_template(job, Unwrap(st.prev_hash),
                                              target_or_default(st), st.version_mask)
              IN IF ~template.ok THEN NoSend(st, TRUE, TRUE)
                 ELSE [st |-> st,
                       emit |-> Some([type |-> "UpdateJob", template |-> template.val]),
                       from |-> Some([job |-> job, prev_hash |-> Unwrap(st.prev_hash),
                                      target |-> st.current_target]),
                       err |-> FALSE,
                       clean |-> TRUE]
         ELSE NoSend(st, FALSE, TRUE)

\* handle_set_new_prev_hash that keeps the prev-hash only when the job it
\* names is already held
handle_set_new_prev_hash_forgets(st, prev_hash) ==
    IF IsSome(get_future_job(st.future_jobs, prev_hash.job_id))
    THEN activate_job([st EXCEPT !.prev_hash = Some(prev_hash)], prev_hash.job_id, FALSE)
    ELSE NoSend(st, FALSE, FALSE)

handle_set_new_prev_hash(st, prev_hash) ==
    LET st1 == [st EXCEPT !.prev_hash = Some(prev_hash)] IN
    activate_job(st1, prev_hash.job_id, FALSE)

\* handle_set_target that also drops the pending prev-hash
handle_set_target_resets(st, target) ==
    NoSend([st EXCEPT !.current_target = Some(target.maximum_target),
                      !.prev_hash = None], FALSE, FALSE)

handle_set_target(st, target) ==
    NoSend([st EXCEPT !.current_target = Some(target.maximum_target)], FALSE, FALSE)

\* handle_pool_message that takes the channel id of an
\* OpenStandardMiningChannelSuccess received in the main loop
handle_pool_message_reopens(st, frame) ==
    IF ~DecodesAsMining(frame) THEN NoSend(st, TRUE, FALSE)
    ELSE IF frame.msg = "NewMiningJob" THEN handle_new_mining_job(st, frame)
    ELSE IF frame.msg = "SetNewPrevHash" THEN handle_set_new_prev_hash(st, frame)
    ELSE IF frame.msg = "SetTarget" THEN handle_set_target(st, frame)
    ELSE IF frame.msg = "OpenStandardMiningChannelSuccess"
    THEN NoSend([st EXCEPT !.channel_id = Some(frame.channel_id)], FALSE, FALSE)
    ELSE NoSend(st, FALSE, FALSE)

\* handle_pool_message that forgets the future jobs when a share is rejected
handle_pool_message_drops_jobs(st, frame) ==
    IF ~DecodesAsMining(frame) THEN NoSend(st, TRUE, FALSE)
    ELSE IF frame.msg = "NewMiningJob" THEN handle_new_mining_job(st, frame)
    ELSE IF frame.msg = "SetNewPrevHash" THEN handle_set_new_prev_hash(st, frame)
    ELSE IF frame.msg = "SetTarget" THEN handle_set_target(st, frame)
    ELSE IF frame.msg = "SubmitSharesError"
    THEN NoSend([st EXCEPT !.future_jobs = << >>], FALSE, FALSE)
    ELSE NoSend(st, FALSE, FALSE)

\* handle_pool_message for a StdFrame
handle_pool_message(st, frame) ==
    IF ~DecodesAsMining(frame) THEN NoSend(st, TRUE, FALSE)
    ELSE IF frame.msg = "NewMiningJob" THEN handle_new_mining_job(st, frame)
    ELSE IF frame.msg = "SetNewPrevHash" THEN handle_set_new_prev_hash(st, frame)
    ELSE IF frame.msg = "SetTarget" THEN handle_set_target(st, frame)
    ELSE NoSend(st, FALSE, FALSE)

\* the state a handler leaves once its send (if any) has returned
AfterSend(h, send_ok) ==
    IF h.err \/ (IsSome(h.emit) /\ ~send_ok) THEN h.st
    ELSE IF h.clean
         THEN [h.st EXCEPT !.future_jobs = clean_old_jobs(@, KeepCount)]
         ELSE h.st

\* the handler returns Err
Fails(h, send_ok) == h.err \/ (IsSome(h.emit) /\ ~send_ok)

\* how many events with this type and template id were sent so far
EmitCount(type, id) ==
    IF <<type, id>> \in DOMAIN emit_count THEN emit_count[<<type, id>>] ELSE 0

\* event_tx.send(event) returning Ok
event_tx_send(event, from) ==
    LET key == <<event.type, event.template.id>> IN
    /\ events' = Append(events, event)
    /\ emitted_from' = Append(emitted_from, from)
    /\ emit_count' = [k \in (DOMAIN emit_count) \cup {key} |->
                        IF k = key THEN EmitCount(event.type, event.template.id) + 1
                        ELSE emit_count[k]]
    /\ n_events' = n_events + 1

(***************************************************************************)
(* mod.rs: the select loop of run                                          *)
(***************************************************************************)
\* the pool branch reading the newest frame of the channel instead of the
\* oldest
pool_message_newest_first ==
    /\ pc = "main"
    /\ "pool" \notin disabled
    /\ pool_rx # << >>
    /\ IsStdFrame(pool_rx[Len(pool_rx)])
    /\ pool_rx' = SubSeq(pool_rx, 1, Len(pool_rx) - 1)
    /\ LET h == handle_pool_message(state, pool_rx[Len(pool_rx)]) IN
       IF IsSome(h.emit) /\ event_open /\ Len(events) >= EventCap
       THEN /\ sending' = Some(h)
            /\ state' = h.st
            /\ pc' = "sending"
            /\ UNCHANGED <<events, emitted_from, emit_count, n_events, disabled>>
       ELSE /\ sending' = None
            /\ state' = AfterSend(h, event_open)
            /\ pc' = "main"
            /\ disabled' = {}
            /\ IF IsSome(h.emit) /\ event_open
               THEN event_tx_send(Unwrap(h.emit), Unwrap(h.from))
               ELSE UNCHANGED <<events, emitted_from, emit_count, n_events>>
    /\ UNCHANGED <<config, dissector, last_connect, attempt, conn_open, pool_tx, command_rx, cmds_issued,
                   event_open, shutdown>>

\* branch `Ok(frame) = client.next_message()` with a StdFrame, up to the
\* return of handle_pool_message or to its suspension in event_tx.send
pool_message ==
    /\ pc = "main"
    /\ "pool" \notin disabled
    /\ pool_rx # << >>
    /\ IsStdFrame(Head(pool_rx))
    /\ pool_rx' = Tail(pool_rx)
    /\ LET h == handle_pool_message(state, Head(pool_rx)) IN
       IF IsSome(h.emit) /\ event_open /\ Len(events) >= EventCap
       THEN /\ sending' = Some(h)
            /\ state' = h.st
            /\ pc' = "sending"
            /\ UNCHANGED <<events, emitted_from, emit_count, n_events, disabled>>
       ELSE /\ sending' = None
            /\ state' = AfterSend(h, event_open)
            /\ pc' = "main"
            /\ disabled' = {}
            /\ IF IsSome(h.emit) /\ event_open
               THEN event_tx_send(Unwrap(h.emit), Unwrap(h.from))
               ELSE UNCHANGED <<events, emitted_from, emit_count, n_events>>
    /\ UNCHANGED <<config, dissector, last_connect, attempt, conn_open, pool_tx, command_rx, cmds_issued,
                   event_open, shutdown>>

\* event_tx.send returns: the channel has room again, or the receiver is gone
event_send_returns ==
    /\ pc = "sending"
    /\ ~event_open \/ Len(events) < EventCap
    /\ LET h == Unwrap(sending) IN
       /\ state' = AfterSend(h, event_open)
       /\ IF event_open
          THEN event_tx_send(Unwrap(h.emit), Unwrap(h.from))
          ELSE UNCHANGED <<events, emitted_from, emit_count, n_events>>
    /\ sending' = None
    /\ pc' = "main"
    /\ disabled' = {}
    /\ UNCHANGED <<config, dissector, last_connect, attempt, conn_open, pool_rx, pool_tx, command_rx,
                   cmds_issued, event_open, shutdown>>

\* client.next_message() returns Err: the pattern `Ok(frame)` does not match
\* and select! disables the branch for this iteration
pool_branch_disabled ==
    /\ pc = "main"
    /\ "pool" \notin disabled
    /\ \/ /\ pool_rx # << >>
          /\ ~IsStdFrame(Head(pool_rx))
          /\ pool_rx' = Tail(pool_rx)
       \/ /\ pool_rx = << >>
          /\ ~conn_open
          /\ pool_rx' = pool_rx
    /\ disabled' = disabled \cup {"pool"}
    /\ UNCHANGED <<config, dissector, last_connect, pc, attempt, state, conn_open, pool_tx, command_rx,
                   cmds_issued, events, emitted_from, emit_count, n_events, event_open,
                   shutdown, sending>>

\* the command branch with `handle_scheduler_command(cmd, &mut client).await?`:
\* an error of the handler ends run
scheduler_command_fatal ==
    /\ pc = "main"
    /\ command_rx # << >>
    /\ command_rx' = Tail(command_rx)
    /\ LET share == Head(command_rx).share IN
       IF ~IsSome(state.channel_id)
       THEN pc' = "returned_err" /\ UNCHANGED <<state, pool_tx>>
       ELSE LET sequence_number == state.sequence_number
                submit == share_to_submit(share, Unwrap(state.channel_id), sequence_number)
            IN /\ state' = [state EXCEPT !.sequence_number = sequence_number + 1]
               /\ pool_tx' = IF submit.ok /\ conn_open
                             THEN Append(pool_tx, submit.val) ELSE pool_tx
               /\ pc' = IF submit.ok /\ conn_open THEN "main" ELSE "returned_err"
    /\ disabled' = {}
    /\ UNCHANGED <<config, dissector, last_connect, attempt, conn_open, pool_rx, cmds_issued, events,
                   emitted_from, emit_count, n_events, event_open, shutdown, sending>>

\* the command branch taking the newest command of the channel instead of the
\* oldest
scheduler_command_newest_first ==
    /\ pc = "main"
    /\ command_rx # << >>
    /\ command_rx' = SubSeq(command_rx, 1, Len(command_rx) - 1)
    /\ LET share == command_rx[Len(command_rx)].share IN
       IF ~IsSome(state.channel_id)
       THEN UNCHANGED <<state, pool_tx>>
       ELSE LET sequence_number == state.sequence_number
                submit == share_to_submit(share, Unwrap(state.channel_id), sequence_number)
            IN /\ state' = [state EXCEPT !.sequence_number = sequence_number + 1]
               /\ pool_tx' = IF submit.ok /\ conn_open
                             THEN Append(pool_tx, submit.val) ELSE pool_tx
    /\ disabled' = {}
    /\ UNCHANGED <<config, dissector, last_connect, pc, attempt, conn_open, pool_rx, cmds_issued, events,
                   emitted_from, emit_count, n_events, event_open, shutdown, sending>>

\* the command branch with a counter that advances only for a share that
\* was converted
scheduler_command_counts_converted ==
    /\ pc = "main"
    /\ command_rx # << >>
    /\ command_rx' = Tail(command_rx)
    /\ LET share == Head(command_rx).share IN
       IF ~IsSome(state.channel_id)
       THEN UNCHANGED <<state, pool_tx>>
       ELSE LET sequence_number == state.sequence_number
                submit == share_to_submit(share, Unwrap(state.channel_id), sequence_number)
            IN /\ state' = IF submit.ok
                           THEN [state EXCEPT !.sequence_number = sequence_number + 1]
                           ELSE state
               /\ pool_tx' = IF submit.ok /\ conn_open
                             THEN Append(pool_tx, submit.val) ELSE pool_tx
    /\ disabled' = {}
    /\ UNCHANGED <<config, dissector, last_connect, pc, attempt, conn_open, pool_rx, cmds_issued, events,
                   emitted_from, emit_count, n_events, event_open, shutdown, sending>>

\* branch `Some(cmd) = self.command_rx.recv()`: handle_scheduler_command
scheduler_command ==
    /\ pc = "main"
    /\ command_rx # << >>
    /\ command_rx' = Tail(command_rx)
    /\ LET share == Head(command_rx).share IN
       IF ~IsSome(state.channel_id)
       THEN UNCHANGED <<state, pool_tx>>
       ELSE LET sequence_number == state.sequence_number
                submit == share_to_submit(share, Unwrap(state.channel_id), sequence_number)
            IN /\ state' = [state EXCEPT !.sequence_number = sequence_number + 1]
               /\ pool_tx' = IF submit.ok /\ conn_open
                             THEN Append(pool_tx, submit.val) ELSE pool_tx
    /\ disabled' = {}
    /\ UNCHANGED <<config, dissector, last_connect, pc, attempt, conn_open, pool_rx, cmds_issued, events,
                   emitted_from, emit_count, n_events, event_open, shutdown, sending>>

\* branch `_ = self.shutdown.cancelled()`: break, Ok(())
shutdown_branch ==
    /\ pc = "main"
    /\ shutdown
    /\ pc' = "returned_ok"
    /\ UNCHANGED <<config, dissector, last_connect, attempt, state, conn_open, pool_rx, pool_tx, command_rx,
                   cmds_issued, events, emitted_from, emit_count, n_events, event_open,
                   shutdown, disabled, sending>>

(***************************************************************************)
(* The environment: pool, scheduler, supervisor.                           *)
(***************************************************************************)
\* the transport delivers a frame of the pool
pool_sends(Frames, max_events) ==
    /\ conn_open
    /\ ~Returned
    /\ Len(pool_rx) < PoolQueueCap
    /\ n_events < max_events
    /\ \E f \in Frames : pool_rx' = Append(pool_rx, f)
    /\ UNCHANGED <<config, dissector, last_connect, pc, attempt, state, conn_open, pool_tx, command_rx,
                   cmds_issued, events, emitted_from, emit_count, n_events, event_open,
                   shutdown, disabled, sending>>

\* the transport delivers two frames of the pool back to back
pool_sends_pair(Frames, max_events) ==
    /\ conn_open
    /\ ~Returned
    /\ Len(pool_rx) < PoolQueueCap
    /\ n_events < max_events
    /\ \E f, g \in Frames : pool_rx' = pool_rx \o <<f, g>>
    /\ UNCHANGED <<config, dissector, last_connect, pc, attempt, state, conn_open, pool_tx, command_rx,
                   cmds_issued, events, emitted_from, emit_count, n_events, event_open,
                   shutdown, disabled, sending>>

\* the connection is lost
pool_closes ==
    /\ conn_open
    /\ ~Returned
    /\ conn_open' = FALSE
    /\ UNCHANGED <<config, dissector, last_connect, pc, attempt, state, pool_rx, pool_tx, command_rx,
                   cmds_issued, events, emitted_from, emit_count, n_events, event_open,
                   shutdown, disabled, sending>>

\* the scheduler issues SourceCommand::SubmitShare(share)
scheduler_submits(S) ==
    /\ ~Returned
    /\ cmds_issued < MaxCmds
    /\ Len(command_rx) < CmdQueueCap
    /\ \E share \in S :
          command_rx' = Append(command_rx, [cmd |-> "SubmitShare", share |-> share])
    /\ cmds_issued' = cmds_issued + 1
    /\ UNCHANGED <<config, dissector, last_connect, pc, attempt, state, conn_open, pool_rx, pool_tx,
                   events, emitted_from, emit_count, n_events, event_open,
                   shutdown, disabled, sending>>

\* the scheduler receives one event
scheduler_receives ==
    /\ events # << >>
    /\ event_open
    /\ events' = Tail(events)
    /\ emitted_from' = Tail(emitted_from)
    /\ UNCHANGED <<config, dissector, last_connect, pc, attempt, state, conn_open, pool_rx, pool_tx, command_rx,
                   cmds_issued, emit_count, n_events, event_open,
                   shutdown, disabled, sending>>

\* the scheduler drops the event receiver
scheduler_drops ==
    /\ event_open
    /\ ~Returned
    /\ event_open' = FALSE
    /\ UNCHANGED <<config, dissector, last_connect, pc, attempt, state, conn_open, pool_rx, pool_tx, command_rx,
                   cmds_issued, events, emitted_from, emit_count, n_events,
                   shutdown, disabled, sending>>

\* the supervisor cancels the shutdown token
cancel ==
    /\ ~shutdown
    /\ ~Returned
    /\ shutdown' = TRUE
    /\ UNCHANGED <<config, dissector, last_connect, pc, attempt, state, conn_open, pool_rx, pool_tx, command_rx,
                   cmds_issued, events, emitted_from, emit_count, n_events, event_open,
                   disabled, sending>>

(***************************************************************************)
(* Spec: the whole connection, every failure of the set-up, shares.        *)
(***************************************************************************)
TcpOutcomes == {"connected", "refused", "timeout"}
NoiseOutcomes == {"ok", "failed"}

\* every frame the pool sends in Spec
PoolFrames ==
    {Plain("SetupConnectionSuccess"), Plain("SetupConnectionError"),
     Plain("OpenMiningChannelError"), Plain("SubmitSharesSuccess"),
     HandShakeFrame, GarbageFrame,
     NewMiningJobMsg(1, TRUE, JobVersion(1, 1), JobRoot(1, 1)),
     SetNewPrevHashMsg(1, 1)}
    \cup {OpenSuccessMsg(c) : c \in ChannelIds}

\* Share{job_id: "42", ..} and Share{job_id: "abc", ..}
Shares ==
    {[job_id |-> <<52, 50>>, nonce |-> 246267631, time |-> 1700000010,
      version |-> 538968064],
     [job_id |-> <<97, 98, 99>>, nonce |-> 1, time |-> 1700000020,
      version |-> 536870912]}

\* In Spec the scheduler issues a command once its previous one was taken.
SharesInTurn == IF command_rx # << >> THEN {} ELSE Shares

Next ==
    \/ parse_url
    \/ connect_with_retry(TcpOutcomes)
    \/ retry_delay
    \/ noise_handshake(NoiseOutcomes)
    \/ setup_connection_send
    \/ setup_connection_recv
    \/ open_standard_mining_channel_send
    \/ open_standard_mining_channel_recv
    \/ pool_message
    \/ event_send_returns
    \/ pool_branch_disabled
    \/ scheduler_command
    \/ shutdown_branch
    \/ pool_sends(PoolFrames, MaxConnEvents)
    \/ pool_closes
    \/ scheduler_submits(SharesInTurn)
    \/ scheduler_receives
    \/ cancel

Spec == Init /\ [][Next]_vars

(***************************************************************************)
(* SpecJobs: a pool that answers the set-up and then announces jobs,       *)
(* prev-hashes and targets for two job ids, one message at a time; the     *)
(* scheduler receives events or drops its receiver.                        *)
(***************************************************************************)
InitOk == Init /\ config = [url |-> PoolUrl, worker_ok |-> TRUE]

\* the pool's answer to the request the client is waiting on
Replies ==
    IF pc = "setup_recv" THEN {Plain("SetupConnectionSuccess")}
    ELSE IF pc = "open_recv" THEN {OpenSuccessMsg(c) : c \in ChannelIds}
    ELSE {}

JobIds == {1, 2}
Variants == {1, 2}

NewMiningJobs ==
    {NewMiningJobMsg(j, TRUE, JobVersion(j, v), JobRoot(j, v)) : j \in JobIds, v \in Variants}
    \cup {NewMiningJobMsg(2, FALSE, JobVersion(2, 3), JobRoot(2, 3)),
          NewMiningJobMsg(1, TRUE, InvalidVersion, JobRoot(1, 1))}

SetNewPrevHashes == {SetNewPrevHashMsg(j, 1) : j \in JobIds}

Targets == {LowByteOne, Bytes32(2)}

JobFrames ==
    IF InMainLoop /\ pool_rx # << >> THEN {}
    ELSE IF InMainLoop
    THEN NewMiningJobs \cup SetNewPrevHashes \cup {SetTargetMsg(t) : t \in Targets}
    ELSE Replies

NextJobs ==
    \/ parse_url
    \/ connect_with_retry({"connected"})
    \/ noise_handshake({"ok"})
    \/ setup_connection_send
    \/ setup_connection_recv
    \/ open_standard_mining_channel_send
    \/ open_standard_mining_channel_recv
    \/ pool_message
    \/ event_send_returns
    \/ pool_sends(JobFrames, MaxEvents)
    \/ scheduler_receives
    \/ scheduler_drops

SpecJobs == InitOk /\ [][NextJobs]_vars

(***************************************************************************)
(* SpecWindow: a pool that numbers its future jobs 1, 2, 3, ... beyond the *)
(* window of clean_old_jobs, may announce job 1 again, and names job 1,    *)
(* the latest job or the next job in SetNewPrevHash; it sends a message    *)
(* once the source has taken the previous one.                             *)
(***************************************************************************)
\* the largest job id held, 0 if none
TopJobId == SetMax((DOMAIN state.future_jobs) \cup {0})

WindowFrames ==
    IF InMainLoop /\ pool_rx # << >> THEN {}
    ELSE IF InMainLoop
    THEN {NewMiningJobMsg(j, TRUE, JobVersion(j, 1), JobRoot(j, 1)) :
             j \in {1, TopJobId + 1} \cap (1..MaxWindowJobId)}
         \cup {SetNewPrevHashMsg(j, 1) :
                 j \in {1, TopJobId, TopJobId + 1} \cap (1..MaxWindowJobId)}
    ELSE Replies

NextWindow ==
    \/ parse_url
    \/ connect_with_retry({"connected"})
    \/ noise_handshake({"ok"})
    \/ setup_connection_send
    \/ setup_connection_recv
    \/ open_standard_mining_channel_send
    \/ open_standard_mining_channel_recv
    \/ pool_message
    \/ event_send_returns
    \/ pool_sends(WindowFrames, MaxWindowEvents)
    \/ scheduler_receives
    \/ scheduler_drops

SpecWindow == InitOk /\ [][NextWindow]_vars

(***************************************************************************)
(* SpecOrder: a pool that answers the set-up and then sends the jobs and   *)
(* prev-hashes of two job ids two frames at a time, so that frames wait    *)
(* behind one another; the scheduler receives events.                      *)
(***************************************************************************)
OrderReplies == IF InMainLoop THEN {} ELSE Replies

\* the messages of the main loop that are only logged
LoggedOnly == {"SubmitSharesSuccess", "SubmitSharesError", "SetCustomMiningJob"}

OrderFrames ==
    IF InMainLoop
    THEN {NewMiningJobMsg(j, TRUE, JobVersion(j, 1), JobRoot(j, 1)) : j \in JobIds}
         \cup SetNewPrevHashes
         \cup {Plain(name) : name \in LoggedOnly}
    ELSE {}

NextOrder ==
    \/ parse_url
    \/ connect_with_retry({"connected"})
    \/ noise_handshake({"ok"})
    \/ setup_connection_send
    \/ setup_connection_recv
    \/ open_standard_mining_channel_send
    \/ open_standard_mining_channel_recv
    \/ pool_message
    \/ event_send_returns
    \/ pool_sends(OrderReplies, MaxOrderEvents)
    \/ pool_sends_pair(OrderFrames, MaxOrderEvents)
    \/ scheduler_receives

SpecOrder == InitOk /\ [][NextOrder]_vars

(***************************************************************************)
(* SpecLive: the connection with the scheduling of the program stated.     *)
(* The pool answers the set-up, granting one of two channel ids, and then  *)
(* sends ill-typed frames, one job and its prev-hash and a stray           *)
(* OpenStandardMiningChannelSuccess, one message at a time; the scheduler  *)
(* submits shares                                                          *)
(* and may or may not receive events; the connection may be lost, the     *)
(* scheduler may drop its receiver, the supervisor may cancel.             *)
(* Every step of run that is ready is eventually taken (weak fairness);    *)
(* select! picks among its ready branches at random, so a branch that is   *)
(* ready again and again is eventually taken (strong fairness for the      *)
(* shutdown branch).  Nothing is assumed of the pool, the scheduler or the *)
(* supervisor.                                                             *)
(***************************************************************************)
\* the k-th share the scheduler issues carries nonce k; its job_id is "42" or
\* "abc"
NumberedShares ==
    {[job_id |-> j, nonce |-> cmds_issued + 1, time |-> 1700000010,
      version |-> 538968064] : j \in {<<52, 50>>, <<97, 98, 99>>}}

\* channel ids the pool of SpecLive grants
LiveChannelIds == {7, 9}

LiveFrames ==
    IF InMainLoop /\ pool_rx # << >> THEN {}
    ELSE IF InMainLoop
    THEN {HandShakeFrame,
          NewMiningJobMsg(1, TRUE, JobVersion(1, 1), JobRoot(1, 1)),
          SetNewPrevHashMsg(1, 1),
          OpenSuccessMsg(9)}
    ELSE IF pc = "open_recv" THEN {OpenSuccessMsg(c) : c \in LiveChannelIds}
    ELSE Replies

NextLive ==
    \/ parse_url
    \/ connect_with_retry({"connected"})
    \/ noise_handshake({"ok"})
    \/ setup_connection_send
    \/ setup_connection_recv
    \/ open_standard_mining_channel_send
    \/ open_standard_mining_channel_recv
    \/ pool_message
    \/ event_send_returns
    \/ pool_branch_disabled
    \/ scheduler_command
    \/ shutdown_branch
    \/ pool_sends(LiveFrames, MaxLiveEvents)
    \/ pool_closes
    \/ scheduler_submits(NumberedShares)
    \/ scheduler_receives
    \/ scheduler_drops
    \/ cancel

Scheduling ==
    /\ WF_vars(parse_url)
    /\ WF_vars(connect_with_retry({"connected"}))
    /\ WF_vars(noise_handshake({"ok"}))
    /\ WF_vars(setup_connection_send)
    /\ WF_vars(setup_connection_recv)
    /\ WF_vars(open_standard_mining_channel_send)
    /\ WF_vars(open_standard_mining_channel_recv)
    /\ WF_vars(pool_message)
    /\ WF_vars(event_send_returns)
    /\ WF_vars(pool_branch_disabled)
    /\ WF_vars(scheduler_command)
    /\ SF_vars(shutdown_branch)

SpecLive == InitOk /\ [][NextLive]_vars /\ Scheduling

(***************************************************************************)
(* SpecMask: the run of SpecOrder under a ProtocolState whose version_mask *)
(* is drawn from a sample of 32-bit masks (the source never assigns the    *)
(* field; job_to_template takes it as an argument).                        *)
(***************************************************************************)
\* 0, 0x00001fff, 0x00002000, 0x10000000, 0x10002000, 0x1fffe000,
\* 0x60000000, 0x7fffffff
MaskSamples ==
    {0, 8191, 8192, 268435456, 268443648, 536862720, 1610612736, 2147483647}

InitMask ==
    /\ Dissector_new
    /\ capture = << >>
    /\ i2c_capture = << >>
    /\ config = [url |-> PoolUrl, worker_ok |-> TRUE]
    /\ pc = "start"
    /\ attempt = 0
    /\ last_connect = "none"
    /\ \E m \in {None} \cup {Some(v) : v \in MaskSamples} :
           state = [ProtocolState_new EXCEPT !.version_mask = m]
    /\ conn_open = FALSE
    /\ pool_rx = << >>
    /\ pool_tx = << >>
    /\ command_rx = << >>
    /\ cmds_issued = 0
    /\ events = << >>
    /\ emitted_from = << >>
    /\ emit_count = << >>
    /\ n_events = 0
    /\ event_open = TRUE
    /\ shutdown = FALSE
    /\ disabled = {}
    /\ sending = None

SpecMask == InitMask /\ [][NextOrder]_vars

(***************************************************************************)
(* mujina-dissect: one capture (a sequence of serial events) is fed to a   *)
(* MultiChannelAssembler, the assembled frames are taken and dissected,    *)
(* and the assembler is flushed at the end of the capture.                 *)
(***************************************************************************)
\* FrameAssembler::process on the assembler that is fed the event's channel
\* alone; the frame it returns is kept
feed_alone(event) ==
    LET a == IF event.channel = "CI" THEN ci_alone ELSE ro_alone
        r == FrameAssembler_process(a.asm, event)
        after == [asm |-> r.asm,
                  frames |-> IF IsSome(r.frame) THEN Append(a.frames, Unwrap(r.frame))
                             ELSE a.frames]
    IN IF event.channel = "CI"
       THEN ci_alone' = after /\ UNCHANGED ro_alone
       ELSE ro_alone' = after /\ UNCHANGED ci_alone

\* FrameAssembler::flush on the two assemblers that are fed one channel each
flush_alone ==
    /\ ci_alone' = [ci_alone EXCEPT !.frames =
                        IF IsSome(timeout(ci_alone.asm))
                        THEN Append(@, Unwrap(timeout(ci_alone.asm))) ELSE @]
    /\ ro_alone' = [ro_alone EXCEPT !.frames =
                        IF IsSome(timeout(ro_alone.asm))
                        THEN Append(@, Unwrap(timeout(ro_alone.asm))) ELSE @]

\* MultiChannelAssembler::process with one timeout clock for the two
\* directions: the event's timestamp becomes the last event time of both
process_shared_clock(gap, error) ==
    /\ processed < Len(capture)
    /\ ~flushed
    /\ now + gap <= MaxTime
    /\ LET ev == capture[processed + 1]
           event == [channel |-> ev.channel, data |-> ev.data,
                     timestamp |-> now + gap, error |-> error]
           r == FrameAssembler_process(
                    IF ev.channel = "CI" THEN ci_assembler ELSE ro_assembler, event)
       IN /\ IF ev.channel = "CI"
             THEN /\ ci_assembler' = r.asm
                  /\ ro_assembler' = [ro_assembler EXCEPT !.last_event_time = now + gap]
             ELSE /\ ro_assembler' = r.asm
                  /\ ci_assembler' = [ci_assembler EXCEPT !.last_event_time = now + gap]
          /\ frames' = IF IsSome(r.frame) THEN Append(frames, Unwrap(r.frame))
                       ELSE frames
          /\ assembled' = IF IsSome(r.frame) THEN Append(assembled, Unwrap(r.frame))
                          ELSE assembled
          /\ now' = now + gap
          /\ feed_alone(event)
    /\ processed' = processed + 1
    /\ UNCHANGED <<stratum, capture, flushed, dissected, i2c>>

\* MultiChannelAssembler::process on the next event of the capture, which
\* comes `gap` after the previous one.
process(gap, error) ==
    /\ processed < Len(capture)
    /\ ~flushed
    /\ now + gap <= MaxTime
    /\ LET ev == capture[processed + 1]
           event == [channel |-> ev.channel, data |-> ev.data,
                     timestamp |-> now + gap, error |-> error]
           r == FrameAssembler_process(
                    IF ev.channel = "CI" THEN ci_assembler ELSE ro_assembler, event)
       IN /\ IF ev.channel = "CI"
             THEN ci_assembler' = r.asm /\ UNCHANGED ro_assembler
             ELSE ro_assembler' = r.asm /\ UNCHANGED ci_assembler
          /\ frames' = IF IsSome(r.frame) THEN Append(frames, Unwrap(r.frame))
                       ELSE frames
          /\ assembled' = IF IsSome(r.frame) THEN Append(assembled, Unwrap(r.frame))
                          ELSE assembled
          /\ now' = now + gap
          /\ feed_alone(event)
    /\ processed' = processed + 1
    /\ UNCHANGED <<stratum, capture, flushed, dissected, i2c>>

\* MultiChannelAssembler::next_frame, and dissect_serial_frame on the frame
next_frame ==
    /\ frames # << >>
    /\ dissected' = Append(dissected, dissect_serial_frame(Head(frames)))
    /\ frames' = Tail(frames)
    /\ UNCHANGED <<stratum, ci_assembler, ro_assembler, capture, processed, now, flushed,
                   assembled, alone, i2c>>

\* MultiChannelAssembler::flush that replaces the queue by the pending frames
flush_replaces_queue ==
    /\ processed = Len(capture)
    /\ ~flushed
    /\ flushed' = TRUE
    /\ frames' = (IF IsSome(timeout(ci_assembler))
                  THEN <<Unwrap(timeout(ci_assembler))>> ELSE << >>)
                 \o (IF IsSome(timeout(ro_assembler))
                     THEN <<Unwrap(timeout(ro_assembler))>> ELSE << >>)
    /\ assembled' = assembled
                    \o (IF IsSome(timeout(ci_assembler))
                        THEN <<Unwrap(timeout(ci_assembler))>> ELSE << >>)
                    \o (IF IsSome(timeout(ro_assembler))
                        THEN <<Unwrap(timeout(ro_assembler))>> ELSE << >>)
    /\ flush_alone
    /\ UNCHANGED <<stratum, ci_assembler, ro_assembler, capture, processed, now, dissected,
                   i2c>>

\* MultiChannelAssembler::flush, at the end of the capture
flush ==
    /\ processed = Len(capture)
    /\ ~flushed
    /\ flushed' = TRUE
    /\ frames' = frames
                 \o (IF IsSome(timeout(ci_assembler))
                     THEN <<Unwrap(timeout(ci_assembler))>> ELSE << >>)
                 \o (IF IsSome(timeout(ro_assembler))
                     THEN <<Unwrap(timeout(ro_assembler))>> ELSE << >>)
    /\ assembled' = assembled
                    \o (IF IsSome(timeout(ci_assembler))
                        THEN <<Unwrap(timeout(ci_assembler))>> ELSE << >>)
                    \o (IF IsSome(timeout(ro_assembler))
                        THEN <<Unwrap(timeout(ro_assembler))>> ELSE << >>)
    /\ flush_alone
    /\ UNCHANGED <<stratum, ci_assembler, ro_assembler, capture, processed, now, dissected,
                   i2c>>

\* Inter-byte gaps: 100 us, 1 ms (not more than the timeout) and 5 ms.
ShortGap == 1
TimeoutGap == 10
LongGap == 50
Gaps == {ShortGap, TimeoutGap, LongGap}

OnChannel(channel, bytes) ==
    [i \in 1..Len(bytes) |-> [channel |-> channel, data |-> bytes[i]]]

ChipAddrs == {1, 2}
CrcBytes == {11, 85}

\* 55 AA 01 09 c r v0 v1 v2 v3 x CRC
WriteRegisterStream(c, r, crc) == <<85, 170, 1, 9, c, r, 3, 4, 5, 6, 7, crc>>
\* 55 AA 01 0A c r v0 v1 v2 v3: the length byte counts the whole frame
WriteRegisterTen(c, r) == <<85, 170, 1, 10, c, r, 3, 4, 5, 6>>
\* 55 AA 01 0B c r v0 v1 v2 v3 CRC: the same with a CRC byte at the end
WriteRegisterEleven(c, r, crc) == <<85, 170, 1, 11, c, r, 3, 4, 5, 6, crc>>
\* 55 AA 01 02 05 06: a length byte smaller than the header it sits in
ShortLength == <<85, 170, 1, 2, 5, 6>>
\* 55 AA 01, cut short
CutShort == <<85, 170, 1>>
\* AA 55 chip_id reg value crc: a register read response
RegisterResponse == <<170, 85, 1, 0, 2, 3, 4, 5, 6, 11>>

\* AA 55 01, cut short
ResponseCutShort == <<170, 85, 1>>
\* 55 55 AA 01 0A c r v0 v1 v2 v3: a stray first preamble byte before a frame
RepeatedFirst == <<85>> \o WriteRegisterTen(1, 2)
\* AA 55 job_id nonce crc: a nonce response in its minimal form, nonce
\* 0x04030201, response kind 2 in the upper bits of the last byte
NonceMinimal(job_id) == <<170, 85, job_id, 1, 2, 3, 4, 75>>
\* AA 55 job_id nonce midstate_idx core_id crc: the extended form
NonceExtended(job_id) == <<170, 85, job_id, 1, 2, 3, 4, 5, 6, 0, 75>>
NonceJobIds == {1, 2}

RECURSIVE Interleave(_, _)
\* the events of two channels as the capture holds them when both lines are
\* busy: in turn, one of each
Interleave(a, b) ==
    IF a = << >> THEN b
    ELSE IF b = << >> THEN a
    ELSE <<Head(a), Head(b)>> \o Interleave(Tail(a), Tail(b))

Captures ==
    {OnChannel("CI", WriteRegisterStream(c, 2, crc)) : c \in ChipAddrs, crc \in CrcBytes}
    \cup {OnChannel("CI", WriteRegisterTen(c, 2)) : c \in ChipAddrs}
    \cup {OnChannel("CI", WriteRegisterEleven(1, 2, crc)) : crc \in CrcBytes}
    \cup {OnChannel("CI", CutShort), OnChannel("RO", RegisterResponse)}
    \cup {OnChannel("CI", ShortLength)}
    \cup {OnChannel("CI", RepeatedFirst)}
    \cup {OnChannel("RO", NonceMinimal(j)) : j \in NonceJobIds}
    \cup {OnChannel("RO", NonceExtended(j)) : j \in NonceJobIds}
    \cup {Interleave(OnChannel("CI", WriteRegisterTen(1, 2) \o CutShort),
                      OnChannel("RO", RegisterResponse \o ResponseCutShort))}

InitDissect ==
    /\ Dissector_new
    /\ capture \in Captures
    /\ i2c_capture = << >>
    /\ StratumV2Source_new
    /\ config = [url |-> PoolUrl, worker_ok |-> TRUE]

NextDissect ==
    \/ \E gap \in Gaps, error \in BOOLEAN : process(gap, error)
    \/ next_frame
    \/ flush

SpecDissect == InitDissect /\ [][NextDissect]_vars

(***************************************************************************)
(* SpecResponse: dissect_serial_frame called on chip-to-host frames of     *)
(* every response kind and of the lengths 7 to 11.                         *)
(***************************************************************************)
\* number of frames dissected
MaxDissected == 1

\* dissect_serial_frame on a frame handed in by the caller
dissect(frame) ==
    /\ Len(dissected) < MaxDissected
    /\ dissected' = Append(dissected, dissect_serial_frame(frame))
    /\ UNCHANGED <<stratum, ci_assembler, ro_assembler, frames, capture, processed, now,
                   flushed, assembled, alone, i2c>>

\* the 3-bit response kinds, and the CRC-5 bits below them
ResponseTags == 0..7
CrcBits == {0, 11}
\* AA 55 c 00 02 03 ..., n bytes, the last one carrying the kind and the CRC
ResponseData(c, n, tag, crc) ==
    [i \in 1..n |->
        IF i = 1 THEN 170
        ELSE IF i = 2 THEN 85
        ELSE IF i = 3 THEN c
        ELSE IF i = n THEN tag * 32 + crc
        ELSE i - 4]
\* the lengths and kinds of the frames; in a frame of 9 bytes the last byte
\* is also the top byte of the register value, which is kept below 2^31
ResponseShapes == {<<n, tag>> \in (7..11) \X ResponseTags : n = 9 => tag < 4}
ResponseFrames ==
    {[direction |-> "ChipToHost", start_time |-> 1, end_time |-> sh[1],
      data |-> ResponseData(c, sh[1], sh[2], crc), has_errors |-> FALSE] :
        c \in ChipAddrs, sh \in ResponseShapes, crc \in CrcBits}

NextResponse == \E frame \in ResponseFrames : dissect(frame)

SpecResponse == InitOk /\ [][NextResponse]_vars

(***************************************************************************)
(* SpecI2c: the I2C events of a capture are fed to an I2cAssembler, the    *)
(* assembler is flushed at the end of the capture, the transactions are    *)
(* taken and then grouped.                                                 *)
(***************************************************************************)
\* I2cAssembler::process on the next event of the capture
i2c_process ==
    /\ i2c_processed < Len(i2c_capture)
    /\ ~i2c_flushed
    /\ LET asm == I2cAssembler_process([state |-> i2c_state, transactions |-> transactions],
                                       i2c_capture[i2c_processed + 1])
       IN /\ i2c_state' = asm.state
          /\ transactions' = asm.transactions
    /\ i2c_processed' = i2c_processed + 1
    /\ UNCHANGED <<stratum, ci_assembler, ro_assembler, frames, capture, processed, now,
                   flushed, dissected, assembled, alone, i2c_capture, i2c_flushed, taken,
                   operations>>

\* I2cAssembler::next_transaction
next_transaction ==
    /\ transactions # << >>
    /\ taken' = Append(taken, Head(transactions))
    /\ transactions' = Tail(transactions)
    /\ UNCHANGED <<stratum, ci_assembler, ro_assembler, frames, capture, processed, now,
                   flushed, dissected, assembled, alone, i2c_state, i2c_capture,
                   i2c_processed, i2c_flushed, operations>>

\* I2cAssembler::flush, at the end of the capture
i2c_flush ==
    /\ i2c_processed = Len(i2c_capture)
    /\ ~i2c_flushed
    /\ i2c_flushed' = TRUE
    /\ LET asm == I2cAssembler_flush([state |-> i2c_state, transactions |-> transactions])
       IN /\ i2c_state' = asm.state
          /\ transactions' = asm.transactions
    /\ UNCHANGED <<stratum, ci_assembler, ro_assembler, frames, capture, processed, now,
                   flushed, dissected, assembled, alone, i2c_capture, i2c_processed, taken,
                   operations>>

\* group_transactions on the transactions taken, once all of them are
group ==
    /\ i2c_flushed
    /\ transactions = << >>
    /\ operations = None
    /\ operations' = Some(group_transactions(taken))
    /\ UNCHANGED <<stratum, ci_assembler, ro_assembler, frames, capture, processed, now,
                   flushed, dissected, assembled, alone, i2c_state, transactions,
                   i2c_capture, i2c_processed, i2c_flushed, taken>>

\* I2cEvents without their timestamps
StartEvent ==
    [event_type |-> "Start", address |-> None, data |-> None, read |-> FALSE, ack |-> FALSE]
StopEvent ==
    [event_type |-> "Stop", address |-> None, data |-> None, read |-> FALSE, ack |-> FALSE]
AddressEvent(address, read, ack) ==
    [event_type |-> "Address", address |-> Some(address), data |-> None,
     read |-> read, ack |-> ack]
DataEvent(byte, read, ack) ==
    [event_type |-> "Data", address |-> None, data |-> Some(byte), read |-> read,
     ack |-> ack]

\* START, the address and the data bytes of a transfer; nack is the index of
\* the data byte that is not acknowledged (0 for none)
Transfer(address, read, bytes, nack) ==
    <<StartEvent, AddressEvent(address, read, TRUE)>>
    \o [i \in 1..Len(bytes) |-> DataEvent(bytes[i], read, i # nack)]

\* Transfers to the devices at 0x24 and 0x25: an address-only write, writes of
\* one and of two bytes (the second one not acknowledged), reads of one byte,
\* and a START that no address follows; each with or without STOP at its end.
Transfers ==
    {Transfer(36, FALSE, << >>, 0),
     Transfer(36, FALSE, <<5>>, 0),
     Transfer(36, FALSE, <<5, 9>>, 2),
     Transfer(36, TRUE, <<7>>, 0),
     Transfer(37, TRUE, <<7>>, 0),
     <<StartEvent>>}
Spans == Transfers \cup {t \o <<StopEvent>> : t \in Transfers}

\* number of START...STOP / START...START spans in a capture
MaxSpans == 3

RECURSIVE Concat(_)
Concat(ss) == IF ss = << >> THEN << >> ELSE Head(ss) \o Concat(Tail(ss))

\* the events with their timestamps: one event per time unit
Stamped(evs) ==
    [i \in 1..Len(evs) |->
        [timestamp |-> i, event_type |-> evs[i].event_type,
         address |-> evs[i].address, data |-> evs[i].data,
         read |-> evs[i].read, ack |-> evs[i].ack]]

I2cCaptures ==
    {Stamped(Concat(ss)) : ss \in UNION {[1..n -> Spans] : n \in 1..MaxSpans}}

InitI2c ==
    /\ Dissector_new
    /\ capture = << >>
    /\ i2c_capture \in I2cCaptures
    /\ StratumV2Source_new
    /\ config = [url |-> PoolUrl, worker_ok |-> TRUE]

NextI2c ==
    \/ i2c_process
    \/ next_transaction
    \/ i2c_flush
    \/ group

SpecI2c == InitI2c /\ [][NextI2c]_vars

(***************************************************************************)
(* SpecUrl: the connect of a run, over a sample of pool URLs.              *)
(***************************************************************************)
InitUrl ==
    /\ Dissector_new
    /\ capture = << >>
    /\ i2c_capture = << >>
    /\ StratumV2Source_new
    /\ config \in [url : Urls, worker_ok : {TRUE}]

NextUrl ==
    \/ parse_url
    \/ connect_with_retry(TcpOutcomes)
    \/ retry_delay
    \/ noise_handshake(NoiseOutcomes)
    \/ cancel

SpecUrl == InitUrl /\ [][NextUrl]_vars

(***************************************************************************)
(* Properties of Spec.                                                     *)
(***************************************************************************)
IsSubmit(m) == m.msg = "SubmitSharesStandard"
\* the SubmitSharesStandard messages sent so far, in order
Submits == SelectSeq(pool_tx, IsSubmit)
Last(q) == q[Len(q)]
\* this step is the command branch of the select loop taking a command
TakesCommand == pc = "main" /\ command_rx # << >> /\ command_rx' = Tail(command_rx)
\* this step reads the head of the frame channel
ReadsFrame == pool_rx # << >> /\ pool_rx' = Tail(pool_rx)

\* C1: the sequence numbers of the SubmitSharesStandard messages forwarded to
\* the pool are 0, 1, 2, ... in the order sent: the first is 0 and each later
\* one is one plus the previous one, without gap or repeat.
C1_ForwardedSequenceNumbersConsecutive ==
    \A i \in 1..Len(Submits) : Submits[i].sequence_number = i - 1

\* C8: when the command branch handles SubmitShare(share) and share.job_id
\* parses as a u32, the message sent to the pool is SubmitSharesStandard with
\* the channel id of the opened channel, the sequence number acquired for this
\* command, the parsed job id, and the share's nonce, time and version
\* unaltered; it is the only message sent in that step.
C8_SubmitCarriesShareFields ==
    [][TakesCommand =>
        LET share == Head(command_rx).share
            parsed == parse_u32(share.job_id)
        IN parsed.ok =>
             /\ share.job_id = <<52, 50>> => parsed.val = 42
             /\ \E c \in ChannelIds :
                  /\ state.channel_id = Some(c)
                  /\ pool_tx' \in
                       {pool_tx,
                        Append(pool_tx,
                               [frame |-> "Sv2", msg |-> "SubmitSharesStandard",
                                channel_id |-> c,
                                sequence_number |-> state.sequence_number,
                                job_id |-> parsed.val,
                                nonce |-> share.nonce,
                                ntime |-> share.time,
                                version |-> share.version])}
                  /\ conn_open => pool_tx' # pool_tx]_vars

\* a share was converted and sent to the pool
C8_Witness == \E i \in 1..Len(pool_tx) : IsSubmit(pool_tx[i]) /\ pool_tx[i].job_id = 42

\* C9: SetupConnection is the first message sent; OpenStandardMiningChannel is
\* sent only from the step that follows the reading of SetupConnectionSuccess;
\* the main loop is entered only by reading OpenStandardMiningChannelSuccess,
\* in the step that records its channel_id; jobs, prev-hashes, targets and
\* commands are processed and events emitted only in the main loop; and every
\* SubmitSharesStandard is sent after both set-up messages, with a channel open.
C9_PhasesInOrder ==
    /\ [](pool_tx # << >> => pool_tx[1].msg = "SetupConnection")
    /\ [](\A i \in 1..Len(pool_tx) :
             /\ pool_tx[i].msg = "OpenStandardMiningChannel" => i = 2
             /\ IsSubmit(pool_tx[i]) => i > 2 /\ IsSome(state.channel_id))
    /\ [](InMainLoop => IsSome(state.channel_id) /\ Len(pool_tx) >= 2)
    /\ [][/\ (pc' = "open_send" /\ pc # "open_send") =>
                /\ pc = "setup_recv"
                /\ ReadsFrame
                /\ Head(pool_rx) = Plain("SetupConnectionSuccess")
          /\ (pool_tx' # pool_tx /\ Last(pool_tx').msg = "OpenStandardMiningChannel") =>
                pc = "open_send"
          /\ (pc' = "main" /\ ~InMainLoop) =>
                /\ pc = "open_recv"
                /\ ReadsFrame
                /\ Head(pool_rx).msg = "OpenStandardMiningChannelSuccess"
                /\ state.channel_id = None
                /\ state'.channel_id = Some(Head(pool_rx).channel_id)
          /\ (state' # state \/ n_events' # n_events \/ TakesCommand) =>
                \/ InMainLoop
                \/ pc' = "main"]_vars

\* the main loop runs and a share was sent on the opened channel
C9_Witness == pc = "main" /\ Submits # << >> /\ n_events > 0

\* C10: the step in which the third TCP connect fails or times out, the Noise
\* handshake fails, the reply to SetupConnection is read and is not
\* SetupConnectionSuccess, or the reply to OpenStandardMiningChannel is read
\* and is OpenMiningChannelError, makes run return an error; run then stays
\* returned, has not entered the main loop (no channel id was recorded), has
\* emitted no SourceEvent and has sent no share.
C10_SetupFailureIsFatal ==
    /\ [][/\ (pc = "tcp" /\ pc' # "tcp" /\ last_connect' # "connected"
                /\ attempt = max_retries) => pc' = "returned_err"
          /\ (pc = "noise" /\ pc' # "noise" /\ ~conn_open') => pc' = "returned_err"
          /\ (pc = "setup_recv" /\ ReadsFrame
                /\ Head(pool_rx) # Plain("SetupConnectionSuccess")) => pc' = "returned_err"
          /\ (pc = "open_recv" /\ ReadsFrame
                /\ Head(pool_rx) = Plain("OpenMiningChannelError")) => pc' = "returned_err"
          /\ pc = "returned_err" => pc' = "returned_err"]_vars
    /\ [](pc = "returned_err" =>
             /\ state.channel_id = None
             /\ n_events = 0
             /\ events = << >>
             /\ Submits = << >>)

\* run has returned an error because the pool rejected the channel
C10_Witness ==
    /\ pc = "returned_err"
    /\ Len(pool_tx) = 2
    /\ last_connect = "connected"

(***************************************************************************)
(* Properties of SpecJobs.                                                 *)
(***************************************************************************)
\* the pending prev-hash names job J
Names(ph, J) == IsSome(ph) /\ Unwrap(ph).job_id = J
\* job J is in future_jobs
Held(J) == J \in DOMAIN state.future_jobs
\* this step is the pool branch of the select loop starting handle_pool_message
HandlesFrame == pc = "main" /\ ReadsFrame /\ IsStdFrame(Head(pool_rx))
IsFutureJob(f, J) == f.msg = "NewMiningJob" /\ f.is_future /\ f.job_id = J
IsPrevHash(f, J) == f.msg = "SetNewPrevHash" /\ f.job_id = J
IsReplaceJobFor(e, J) == e.type = "ReplaceJob" /\ parse_u32(e.template.id) = Ok(J)
\* the frame at the head of the channel completes the pair of job J: it is
\* SetNewPrevHash(J) while J is held, or a future NewMiningJob(J) while the
\* pending prev-hash names J, and the job's version converts
CompletesPair(f, J) ==
    \/ /\ IsPrevHash(f, J)
       /\ Held(J)
       /\ ValidVersion(state.future_jobs[J].version)
    \/ /\ IsFutureJob(f, J)
       /\ Names(state.prev_hash, J)
       /\ ValidVersion(f.version)

C7_TemplateFields ==
    \A i \in 1..Len(events) :
        events[i].type = "ReplaceJob" =>
            LET t == events[i].template
                N == emitted_from[i].job
                P == emitted_from[i].prev_hash
                tgt == emitted_from[i].target
            IN /\ N.job_id = P.job_id
               /\ t.version.base = N.version
               /\ t.merkle_root = [kind |-> "Fixed", root |-> N.merkle_root]
               /\ t.prev_blockhash = P.prev_hash
               /\ t.bits = P.nbits
               /\ t.time = P.min_ntime
               /\ DOMAIN t.share_target = 1..HashLen
               /\ tgt = None => \A k \in 1..HashLen : t.share_target[k] = 255
               /\ IsSome(tgt) =>
                     \A k \in 1..HashLen : t.share_target[HashLen + 1 - k] = Unwrap(tgt)[k]
               /\ tgt = Some(LowByteOne) =>
                     /\ t.share_target[HashLen] = 1
                     /\ \A k \in 1..(HashLen - 1) : t.share_target[k] = 0

\* a ReplaceJob built under a target set by SetTarget is on the event channel
C7_Witness ==
    \E i \in 1..Len(events) :
        /\ events[i].type = "ReplaceJob"
        /\ emitted_from[i].target = Some(LowByteOne)

(***************************************************************************)
(* Properties of SpecWindow.                                               *)
(***************************************************************************)
\* the job ids the pool may announce next: job 1 again or the next new job
WindowJobIds == {1, TopJobId + 1} \cap (1..MaxWindowJobId)
\* neither message of the pair of J is held
Fresh(J) == ~Held(J) /\ ~Names(state.prev_hash, J)
\* J stays in future_jobs when it is inserted: fewer than KeepCount held jobs
\* have a larger id
Retained(J) == Cardinality({k \in DOMAIN state.future_jobs : k > J}) < KeepCount

WindowJob(J) == NewMiningJobMsg(J, TRUE, JobVersion(J, 1), JobRoot(J, 1))
WindowPrevHash(J) == SetNewPrevHashMsg(J, 1)

\* what the second handler sends when st handles NewMiningJob(J) and then
\* SetNewPrevHash(J)
JobFirst(st, J) ==
    LET h1 == handle_pool_message(st, WindowJob(J))
        h2 == handle_pool_message(AfterSend(h1, TRUE), WindowPrevHash(J))
    IN h2.emit

\* what the second handler sends when st handles SetNewPrevHash(J) and then
\* NewMiningJob(J)
PrevHashFirst(st, J) ==
    LET h1 == handle_pool_message(st, WindowPrevHash(J))
        h2 == handle_pool_message(AfterSend(h1, TRUE), WindowJob(J))
    IN h2.emit

\* the protocol state with another current target
WithTarget(tgt) == [state EXCEPT !.current_target = tgt]
SomeTargets == {None, Some(LowByteOne)}

C4_FutureJobsBounded ==
    pc = "main" => Cardinality(DOMAIN state.future_jobs) <= KeepCount

\* C5: the handling of SetNewPrevHash(J) or of a future NewMiningJob(J) sends
\* no event, and does not start sending one, unless J is in future_jobs
\* (counting the job just stored) and the pending prev-hash (counting the one
\* just stored) names J; every ReplaceJob put on the event channel is for a
\* job J that was held and named in that way.  So a SetNewPrevHash naming a
\* job that was never received or was evicted sends nothing.
C5_ActivationNeedsJobAndPrevHash ==
    /\ [][(/\ HandlesFrame
           /\ \/ Head(pool_rx).msg = "SetNewPrevHash"
              \/ Head(pool_rx).msg = "NewMiningJob" /\ Head(pool_rx).is_future) =>
              LET f == Head(pool_rx)
                  J == f.job_id
                  present == Held(J) \/ IsFutureJob(f, J)
                  named == Names(state.prev_hash, J) \/ IsPrevHash(f, J)
              IN ~(present /\ named) =>
                    /\ n_events' = n_events
                    /\ events' = events
                    /\ emit_count' = emit_count
                    /\ sending' = None
                    /\ pc' = "main"]_vars
    /\ [][(n_events' # n_events /\ Last(events').type = "ReplaceJob") =>
              LET J == Last(emitted_from').job.job_id IN
              /\ IsReplaceJobFor(Last(events'), J)
              /\ Held(J) \/ (HandlesFrame /\ IsFutureJob(Head(pool_rx), J))
              /\ Names(state.prev_hash, J) \/ (HandlesFrame /\ IsPrevHash(Head(pool_rx), J))]_vars

\* SetNewPrevHash(1) was handled after job 1 had been evicted by the window:
\* nothing was sent
C5_Witness ==
    /\ pc = "main"
    /\ pool_rx = << >>
    /\ event_open
    /\ n_events = 0
    /\ Names(state.prev_hash, 1)
    /\ ~Held(1)
    /\ Cardinality(DOMAIN state.future_jobs) = KeepCount

\* job ids at the ends of the decimal lengths and of the parser's overflow test
SampleJobIds == {0, 9, 10, 99, 100, 65535, 429496729, 429496730, 2147483647}

\* C6: the id of every template on the event channel is the decimal string
\* of the job_id of the NewMiningJob it was built from (digits only, no
\* leading zero) and str::parse::<u32> of it gives that job_id back; the same
\* round trip holds for job ids at the ends of the decimal lengths (computed
\* once, before the connection starts).
C6_TemplateIdParsesBack ==
    /\ \A i \in 1..Len(events) :
           LET id == events[i].template.id
               job_id == emitted_from[i].job.job_id
           IN /\ id # << >>
              /\ \A k \in 1..Len(id) : id[k] \in 48..57
              /\ Len(id) > 1 => id[1] # 48
              /\ parse_u32(id) = Ok(job_id)
    /\ pc = "start" => \A j \in SampleJobIds : parse_u32(to_string(j)) = Ok(j)

\* a template with a two-digit id is on the event channel
C6_Witness ==
    \E i \in 1..Len(events) :
        /\ events[i].type = "ReplaceJob"
        /\ emitted_from[i].job.job_id >= 10
        /\ Len(events[i].template.id) = 2

(***************************************************************************)
(* Further properties of Spec.                                             *)
(***************************************************************************)
\* this step is one TCP connect attempt
ConnectAttempt == pc = "tcp" /\ last_connect' \in TcpOutcomes /\ pc' # "tcp"

\* C11: every TCP connect attempt is attempt 1, 2 or 3; an attempt that
\* connects goes on to the Noise handshake and no further attempt is made;
\* the third attempt that fails or times out ends run with an error; the
\* backoff is entered only after a failed attempt 1 or 2 and is followed by
\* the next attempt.
C11_ConnectAtMostThreeAttempts ==
    /\ [](pc \in {"tcp", "backoff"} => attempt \in 1..max_retries)
    /\ [](pc = "backoff" => attempt < max_retries)
    /\ [][ConnectAttempt =>
            /\ last_connect' = "connected" => pc' = "noise"
            /\ (last_connect' # "connected" /\ attempt = max_retries) => pc' = "returned_err"
            /\ (last_connect' # "connected" /\ attempt < max_retries) =>
                  pc' = "backoff" /\ attempt' = attempt]_vars
    /\ [][(pc = "backoff" /\ pc' # "backoff") => pc' = "tcp" /\ attempt' = attempt + 1]_vars
    /\ [][(pc' = "tcp" /\ pc # "tcp") => pc \in {"start", "backoff"}]_vars
    /\ [][(pc' = "backoff" /\ pc # "backoff") => pc = "tcp" /\ last_connect' # "connected"]_vars

\* run has returned an error after the third attempt timed out
C11_Witness ==
    /\ pc = "returned_err"
    /\ last_connect = "timeout"
    /\ pool_tx = << >>

\* C13: the command branch handling a SubmitShare whose job_id does not
\* parse as a u32 sends nothing to the pool and emits nothing, leaves the
\* source in the main loop with every select branch polled again, and leaves
\* the later commands and the pool frames queued for the next iterations.
C13_BadJobIdIsPerOperation ==
    [][(TakesCommand /\ ~parse_u32(Head(command_rx).share.job_id).ok) =>
            /\ pool_tx' = pool_tx
            /\ pc' = "main"
            /\ disabled' = {}
            /\ pool_rx' = pool_rx
            /\ events' = events
            /\ n_events' = n_events
            /\ state'.channel_id = state.channel_id
            /\ state'.future_jobs = state.future_jobs
            /\ state'.prev_hash = state.prev_hash]_vars

\* a share with a bad job_id was handled, and the next share was forwarded
C13_Witness ==
    /\ pc = "main"
    /\ conn_open
    /\ Len(Submits) = 1
    /\ Submits[1].sequence_number = 1

\* the steps of run before the main loop: connect (TCP attempts, backoff,
\* Noise handshake), setup_connection and open_standard_mining_channel
SetUpSteps == {"tcp", "backoff", "noise", "setup_send", "setup_recv", "open_send", "open_recv"}

\* C16: when the token is cancelled while run is in a step before the main
\* loop, that step does not complete: the only way run leaves it is by
\* returning an error.
C16_CancelAbortsSetUp ==
    [][(shutdown /\ pc \in SetUpSteps /\ pc' # pc) => pc' = "returned_err"]_vars

(***************************************************************************)
(* Properties of SpecLive.                                                 *)
(***************************************************************************)
\* the main loop runs and n frames wait on the frame channel, a valid one first
ValidFramePending(n) ==
    /\ InMainLoop
    /\ Len(pool_rx) = n
    /\ n > 0
    /\ IsStdFrame(Head(pool_rx))

\* C12: with a scheduler that keeps receiving events, a valid frame that
\* waits on the frame channel while the main loop runs is eventually read,
\* unless run returns; no scheduler command is needed for that.
C12_ValidFrameEventuallyRead ==
    WF_vars(scheduler_receives) =>
        \A n \in 1..(PoolQueueCap + 1) :
            ValidFramePending(n) ~> (Len(pool_rx) < n \/ Returned)

\* the next handler of a pool frame has an event to send
MustSendEvent ==
    /\ pc = "main"
    /\ pool_rx # << >>
    /\ IsStdFrame(Head(pool_rx))
    /\ IsSome(handle_pool_message(state, Head(pool_rx)).emit)

\* C14: when the main loop runs and the receive channel of the connection is
\* closed and empty, or the event channel is closed when the next handler has
\* an event to send, run eventually returns an error.
C14_ResourceErrorEndsRun ==
    /\ (InMainLoop /\ ~conn_open /\ pool_rx = << >>) ~> pc = "returned_err"
    /\ (MustSendEvent /\ ~event_open) ~> pc = "returned_err"

\* C15: once the token is cancelled while the main loop runs, run eventually
\* returns Ok, whatever the pool and the scheduler do.
C15_ShutdownReturnsOk ==
    (shutdown /\ InMainLoop) ~> pc = "returned_ok"

\* C17: the scheduler numbers its shares by their nonce in the order it
\* issues them.  The commands wait on the channel in that order, the command
\* branch takes the oldest one and what it sends is built from that one, so
\* the SubmitSharesStandard messages sent are in the order of issue, all older
\* than every command still waiting, and their sequence numbers are strictly
\* increasing.
C17_SharesForwardedFifo ==
    /\ [](\A i, j \in 1..Len(Submits) :
            i < j => /\ Submits[i].nonce < Submits[j].nonce
                     /\ Submits[i].sequence_number < Submits[j].sequence_number)
    /\ [](\A i, j \in 1..Len(command_rx) :
            i < j => command_rx[i].share.nonce < command_rx[j].share.nonce)
    /\ [](\A i \in 1..Len(Submits) : \A j \in 1..Len(command_rx) :
            Submits[i].nonce < command_rx[j].share.nonce)
    /\ [][(pc = "main" /\ command_rx' # command_rx /\ Len(command_rx') < Len(command_rx)) =>
            /\ command_rx' = Tail(command_rx)
            /\ pool_tx' # pool_tx =>
                  /\ pool_tx' = Append(pool_tx, Last(pool_tx'))
                  /\ Last(pool_tx').nonce = Head(command_rx).share.nonce
                  /\ Last(pool_tx').sequence_number = state.sequence_number]_vars

\* the first and the third share were forwarded, a share of bad job_id was
\* issued between them
C17_Witness ==
    /\ Len(Submits) = 2
    /\ Submits[1].nonce = 1
    /\ Submits[2].nonce = 3

(***************************************************************************)
(* Properties of SpecOrder.                                                *)
(***************************************************************************)
IsPrefix(a, b) == Len(a) <= Len(b) /\ SubSeq(b, 1, Len(a)) = a

\* C18: frames wait on the frame channel in arrival order and the main loop
\* always takes the oldest one and runs the handler of that one; while a
\* handler is suspended in its send no frame is read and the protocol state
\* does not change, and when the send returns the event put on the channel is
\* the one of that handler; a ReplaceJob is put on the event channel by the
\* handler of the frame that completes its pair (or by the return of that
\* handler's send), at the tail, and the scheduler takes events from the
\* head: so ReplaceJob events reach the scheduler in the order in which the
\* second messages of their pairs arrived.
C18_FramesInArrivalOrder ==
    /\ [][pool_rx' # pool_rx =>
            \/ pool_rx # << >> /\ pool_rx' = Tail(pool_rx) /\ pc # "sending"
            \/ IsPrefix(pool_rx, pool_rx') /\ UNCHANGED <<pc, state, events, sending>>]_vars
    /\ [][(pc = "main" /\ ReadsFrame) =>
            LET h == handle_pool_message(state, Head(pool_rx)) IN
            /\ state' \in {h.st, AfterSend(h, event_open)}
            /\ events' # events =>
                  /\ IsSome(h.emit)
                  /\ events' = Append(events, Unwrap(h.emit))
                  /\ \A J \in JobIds : IsReplaceJobFor(Unwrap(h.emit), J) =>
                        CompletesPair(Head(pool_rx), J)
            /\ pc' = "sending" => sending' = Some(h)]_vars
    /\ [][pc = "sending" =>
            /\ state'.future_jobs = state.future_jobs \/ pc' = "main"
            /\ state'.prev_hash = state.prev_hash
            /\ sending' # sending => pc' = "main"
            /\ events' # events =>
                  \/ events # << >> /\ events' = Tail(events) /\ pc' = "sending"
                  \/ events' = Append(events, Unwrap(Unwrap(sending).emit)) /\ pc' = "main"]_vars
    /\ [][events' # events =>
            \/ events # << >> /\ events' = Tail(events)
            \/ Len(events') = Len(events) + 1 /\ IsPrefix(events, events')]_vars

\* the handler of SetNewPrevHash is suspended in the send of its ReplaceJob
\* while the next frame waits behind it
C18_Witness ==
    /\ pc = "sending"
    /\ pool_rx # << >>
    /\ events # << >>
    /\ Unwrap(Unwrap(sending).emit).type = "ReplaceJob"

\* C19: channel_id is None in every step of run before the reply to
\* OpenStandardMiningChannel is read (and when run failed there); the only
\* step that changes it is the reading of OpenStandardMiningChannelSuccess
\* in open_standard_mining_channel, from None to the channel_id of that
\* message; every SubmitSharesStandard sent carries the value it holds.
C19_ChannelIdSetOnce ==
    /\ [](pc \in SetUpSteps \cup {"start", "returned_err"} => state.channel_id = None)
    /\ [](InMainLoop => IsSome(state.channel_id))
    /\ [][state'.channel_id # state.channel_id =>
            /\ pc = "open_recv"
            /\ ReadsFrame
            /\ Head(pool_rx).msg = "OpenStandardMiningChannelSuccess"
            /\ state.channel_id = None
            /\ state'.channel_id = Some(Head(pool_rx).channel_id)]_vars
    /\ [](\A i \in 1..Len(Submits) :
            /\ IsSome(state.channel_id)
            /\ Submits[i].channel_id = Unwrap(state.channel_id))

\* a share was sent on channel 7 and the stray
\* OpenStandardMiningChannelSuccess naming channel 9 is about to be handled
C19_Witness ==
    /\ pc = "main"
    /\ state.channel_id = Some(7)
    /\ Submits # << >>
    /\ pool_rx # << >>
    /\ Head(pool_rx) = OpenSuccessMsg(9)


(***************************************************************************)
(* Properties of SpecDissect.                                              *)
(***************************************************************************)
\* the capture was processed to its end and every assembled frame was taken
AllTaken == processed = Len(capture) /\ frames = << >>
\* every byte of the capture came ShortGap after the one before
AllGapsShort == now = processed * ShortGap
\* the bytes of the capture
CaptureBytes == [i \in 1..Len(capture) |-> capture[i].data]

\* C20: a 12-byte stream 55 AA 01 09 c r v0 v1 v2 v3 x CRC fed on channel CI
\* with gaps below 1 ms yields exactly one frame, which holds all twelve
\* bytes and is dissected as WriteRegister(chip = c, reg = r, value = v0..v3
\* little-endian) with a CRC status, not as an Invalid frame.
C20_StreamIsOneWriteRegister ==
    \A c \in ChipAddrs, crc \in CrcBytes :
        (/\ capture = OnChannel("CI", WriteRegisterStream(c, 2, crc))
         /\ AllTaken
         /\ AllGapsShort)
        => /\ Len(dissected) = 1
           /\ dissected[1].raw_data = CaptureBytes
           /\ dissected[1].content =
                  Command([name |-> "WriteRegister", chip_addr |-> c, reg_addr |-> 2,
                           value |-> 100992003])
           /\ dissected[1].crc_status \in {"Valid", "Invalid"}


Channels == {"CI", "RO"}
Assembler(channel) == IF channel = "CI" THEN ci_assembler ELSE ro_assembler
AssemblerAfter(channel) == IF channel = "CI" THEN ci_assembler' ELSE ro_assembler'
\* a step of process on an event of the channel
Processes(channel) ==
    /\ processed' = processed + 1
    /\ capture[processed + 1].channel = channel
\* the same, the event coming more than the timeout after the channel's last one
ProcessesAfterGap(channel) ==
    /\ Processes(channel)
    /\ now' - Assembler(channel).last_event_time > timeout_seconds
\* the frame of what the assembler has collected, as a timeout emits it
Pending(channel) ==
    IF Assembler(channel).state.tag = "Collecting"
    THEN <<[direction |-> Direction_from(channel),
            data |-> Assembler(channel).state.data,
            has_errors |-> TRUE]>>
    ELSE << >>
\* a frame without its timestamps
Untimed(frame) ==
    [direction |-> frame.direction, data |-> frame.data, has_errors |-> frame.has_errors]
UntimedFrames(fs) == [i \in 1..Len(fs) |-> Untimed(fs[i])]

WithLastByte(data, b) == SubSeq(data, 1, Len(data) - 1) \o <<b>>

\* C22: the CRC status of a dissected command frame tells whether its CRC
\* byte matches its contents: a complete frame is reported Valid when it
\* matches and Invalid when it does not, so of two complete frames with the
\* same contents and CRC bytes that differ in their five CRC bits at most one
\* is reported Valid.
C22_CrcMismatchIsInvalid ==
    \A i \in 1..Len(dissected) :
        LET d == dissected[i]
        IN (/\ d.direction = "HostToChip"
            /\ Len(d.raw_data) >= 5
            /\ Len(d.raw_data) = d.raw_data[4]
            /\ d.content.kind = "Command"
            /\ d.crc_status = "Valid")
           => \A b \in CrcBytes :
                  b % 32 # d.raw_data[Len(d.raw_data)] % 32
                  => dissect_command(WithLastByte(d.raw_data, b))[2] = "Invalid"


\* C29: every host-to-chip frame the assembler emits without the error flag
\* has exactly as many bytes as its byte at offset 3 says.
C29_LengthByteFixesFrameLength ==
    \A i \in 1..Len(frames) :
        (frames[i].direction = "HostToChip" /\ ~frames[i].has_errors)
        => /\ Len(frames[i].data) >= 4
           /\ Len(frames[i].data) = frames[i].data[4]

\* C30: a byte that comes more than 1 ms after the channel's last one
\* restarts the assembly, whatever the state: after the step the assembler
\* holds nothing but that byte (FoundFirst at its timestamp, or Idle).
C30_GapRestartsAssembly ==
    [][\A ch \in Channels :
           ProcessesAfterGap(ch)
           => AssemblerAfter(ch).state \in {Idle, FoundFirst(now')}]_vars

\* the step is MultiChannelAssembler::flush
Flushes == flushed' /\ ~flushed

\* C31: flush appends, for the host-to-chip and then the chip-to-host
\* assembler, one frame marked has_errors holding exactly the bytes collected
\* so far when the assembler is in Collecting and nothing when it is in Idle
\* or FoundFirst; the frames already queued stay in the queue, unchanged and
\* in the same places.
C31_FlushEmitsPendingAsErrored ==
    [][Flushes
       => /\ Len(frames') >= Len(frames)
          /\ SubSeq(frames', 1, Len(frames)) = frames
          /\ UntimedFrames(SubSeq(frames', Len(frames) + 1, Len(frames')))
                 = Pending("CI") \o Pending("RO")
          /\ \A ch \in Channels :
                 Assembler(ch).state.tag \in {"Idle", "FoundFirst"}
                 => \A i \in (Len(frames) + 1)..Len(frames') :
                        frames'[i].direction # Direction_from(ch)]_vars

\* Both lines were cut short: after the flush the queue holds a complete
\* frame that was waiting and the two errored frames 55 AA 01 and AA 55 01.
C31_Witness ==
    /\ flushed
    /\ Len(frames) = 3
    /\ ~frames[1].has_errors
    /\ Untimed(frames[2]) =
           [direction |-> "HostToChip", data |-> CutShort, has_errors |-> TRUE]
    /\ Untimed(frames[3]) =
           [direction |-> "ChipToHost", data |-> ResponseCutShort, has_errors |-> TRUE]

\* n bytes of a chip-to-host frame
ResponseOfLen(n) == [i \in 1..n |-> IF i = 1 THEN 170 ELSE IF i = 2 THEN 85 ELSE 0]
\* the step emits a frame of the channel that is no timeout frame
CompletesFrame(channel) ==
    /\ Processes(channel)
    /\ Len(frames') = Len(frames) + 1
    /\ ~(ProcessesAfterGap(channel) /\ Assembler(channel).state.tag = "Collecting")

\* C32: the completion test accepts chip-to-host data of n bytes exactly when
\* n >= 7 and (n >= 20 or n is 7, 9, 10 or 11); as it is applied after every
\* byte, every chip-to-host frame that process_byte completes has exactly 7
\* bytes, a timeout frame has fewer, and no frame of 9, 10, 11 or 20 bytes is
\* ever queued.
C32_ResponseFramesHaveSevenBytes ==
    /\ [](/\ \A n \in 2..22 :
                complete("ChipToHost", ResponseOfLen(n), None)
                <=> (n >= 7 /\ (n >= 20 \/ n \in {7, 9, 10, 11}))
          /\ \A i \in 1..Len(frames) :
                frames[i].direction = "ChipToHost"
                => /\ Len(frames[i].data) <= 7
                   /\ ~frames[i].has_errors => Len(frames[i].data) = 7)
    /\ [][CompletesFrame("RO") => Len(frames'[Len(frames')].data) = 7]_vars

\* AA 55 01 00 02 03 04 05 06 0B was read to its end: the frame queued is its
\* first seven bytes and the assembler is idle.
C32_Witness ==
    /\ capture = OnChannel("RO", RegisterResponse)
    /\ processed = Len(capture)
    /\ Len(frames) = 1
    /\ frames[1].data = SubSeq(RegisterResponse, 1, 7)
    /\ ~frames[1].has_errors
    /\ ro_assembler.state = Idle

\* one of the frames dissected is the response
ReportedAs(rsp) == \E k \in 1..Len(dissected) : dissected[k].content = Response(rsp)

\* C35: a nonce response fed on channel RO with gaps below 1 ms, assembled
\* and dissected, is reported as NonceFound with the job_id and the nonce
\* sent: in the minimal form with midstate_idx and core_id absent, in the
\* extended form with both present and equal to the bytes sent.
C35_NonceResponseReportedInBothForms ==
    \A j \in NonceJobIds :
        /\ (capture = OnChannel("RO", NonceMinimal(j)) /\ AllTaken /\ AllGapsShort)
           => ReportedAs([name |-> "NonceFound", job_id |-> j, nonce |-> 67305985,
                          midstate_idx |-> None, core_id |-> None])
        /\ (capture = OnChannel("RO", NonceExtended(j)) /\ AllTaken /\ AllGapsShort)
           => ReportedAs([name |-> "NonceFound", job_id |-> j, nonce |-> 67305985,
                          midstate_idx |-> Some(5), core_id |-> Some(6)])

Other(channel) == IF channel = "CI" THEN "RO" ELSE "CI"
Alone(channel) == IF channel = "CI" THEN ci_alone ELSE ro_alone
\* the frames of the channel's direction among those the MultiChannelAssembler
\* has queued, in order
AssembledOn(channel) ==
    SelectSeq(assembled, LAMBDA f : f.direction = Direction_from(channel))

\* C37: processing an event of one channel leaves the assembler of the other
\* channel, its state and its last event time, as it was; and at every point
\* of every capture, interleaved or not, the frames queued for a channel are,
\* in order, those a FrameAssembler fed that channel's events alone has
\* returned, the channel's assembler being in the same state as that one.
C37_ChannelsAssembleIndependently ==
    /\ [][\A ch \in Channels :
              Processes(ch) => AssemblerAfter(Other(ch)) = Assembler(Other(ch))]_vars
    /\ [](\A ch \in Channels :
              /\ AssembledOn(ch) = Alone(ch).frames
              /\ Assembler(ch) = Alone(ch).asm)

\* The interleaved capture was read to its end with a gap of more than 1 ms
\* somewhere and flushed: four frames were queued, of both directions in turn.
C37_Witness ==
    /\ flushed
    /\ \E k \in 1..(Len(capture) - 1) : capture[k].channel # capture[k + 1].channel
    /\ now > Len(capture) * ShortGap
    /\ Len(assembled) = 4
    /\ Len(AssembledOn("CI")) = 2
    /\ Len(AssembledOn("RO")) = 2
    /\ assembled[1].direction # assembled[2].direction

\* the frame begins with the two preamble bytes of its direction
BeginsWithPreamble(frame) ==
    /\ Len(frame.data) >= 2
    /\ frame.data[1] = FirstPreamble(frame.direction)
    /\ frame.data[2] = SecondPreamble(frame.direction)
\* the step processes, on the channel, a byte that fails as second preamble byte
FailsAsSecond(channel) ==
    /\ Processes(channel)
    /\ Assembler(channel).state.tag = "FoundFirst"
    /\ capture[processed + 1].data # SecondPreamble(Direction_from(channel))

\* C40: every frame the assemblers emit, complete or errored, through process
\* or flush, has at least 2 bytes and begins with the preamble of its
\* direction (55 AA host-to-chip, AA 55 chip-to-host); a byte that fails as
\* second preamble byte is examined again as a first preamble byte, so that
\* after 55 55 AA on CI the assembler is collecting a frame 55 AA.
C40_FramesBeginWithPreamble ==
    /\ [](/\ \A i \in 1..Len(assembled) : BeginsWithPreamble(assembled[i])
          /\ \A i \in 1..Len(frames) : BeginsWithPreamble(frames[i])
          /\ (capture = OnChannel("CI", RepeatedFirst) /\ processed = 3)
             => ci_assembler.state.tag = "Collecting"
                /\ ci_assembler.state.data = <<85, 170>>)
    /\ [][\A ch \in Channels :
              FailsAsSecond(ch)
              => AssemblerAfter(ch).state =
                     IF capture[processed + 1].data = FirstPreamble(Direction_from(ch))
                     THEN FoundFirst(now')
                     ELSE Idle]_vars

\* 55 55 AA 01 0A 01 02 03 04 05 06 was read to its end on CI: the frame
\* queued is 55 AA 01 0A 01 02 03 04 05 06, complete.
C40_Witness ==
    /\ capture = OnChannel("CI", RepeatedFirst)
    /\ processed = Len(capture)
    /\ Len(assembled) = 1
    /\ assembled[1].data = WriteRegisterTen(1, 2)
    /\ assembled[1].direction = "HostToChip"
    /\ ~assembled[1].has_errors

(***************************************************************************)
(* Properties of SpecResponse.                                             *)
(***************************************************************************)
\* the 3-bit tag in the upper bits of the last byte
KindTag(data) == (data[Len(data)] \div 32) % 8

\* C36: a chip-to-host frame is decoded as a register value only if the tag
\* in the upper three bits of its last byte is 0, as a found nonce only if
\* the tag is 2 and as a chip version only if the tag is 6.
C36_KindFollowsTag ==
    \A k \in 1..Len(dissected) :
        (dissected[k].direction = "ChipToHost" /\ dissected[k].content.kind = "Response")
        => /\ dissected[k].content.rsp.name = "RegisterValue"
                => KindTag(dissected[k].raw_data) = 0
           /\ dissected[k].content.rsp.name = "NonceFound"
                => KindTag(dissected[k].raw_data) = 2
           /\ dissected[k].content.rsp.name = "Version"
                => KindTag(dissected[k].raw_data) = 6

(***************************************************************************)
(* Properties of SpecI2c.                                                  *)
(***************************************************************************)
IsBoundary(e) == e.event_type \in {"Start", "Stop"}
IsData(e) == e.event_type = "Data"
\* the last START or STOP before event n of the capture (0 if there is none)
BoundaryBefore(n) ==
    IF \E k \in 1..(n - 1) : IsBoundary(i2c_capture[k])
    THEN CHOOSE k \in 1..(n - 1) :
             /\ IsBoundary(i2c_capture[k])
             /\ \A m \in (k + 1)..(n - 1) : ~IsBoundary(i2c_capture[m])
    ELSE 0
\* event n closes a span that began with the START at BoundaryBefore(n) and
\* holds an address event
ClosesSpan(n) ==
    /\ IsBoundary(i2c_capture[n])
    /\ BoundaryBefore(n) > 0
    /\ i2c_capture[BoundaryBefore(n)].event_type = "Start"
    /\ \E k \in (BoundaryBefore(n) + 1)..(n - 1) : i2c_capture[k].event_type = "Address"
\* a transaction without its timestamps
UntimedTransaction(t) ==
    [address |-> t.address, is_read |-> t.is_read, data |-> t.data, success |-> t.success]
\* the transaction of the span that event n closes, without timestamps
SpanTransaction(n) ==
    LET first == BoundaryBefore(n)
        a == CHOOSE k \in (first + 1)..(n - 1) :
                 /\ i2c_capture[k].event_type = "Address"
                 /\ \A m \in (first + 1)..(k - 1) : i2c_capture[m].event_type # "Address"
        bytes == SelectSeq(SubSeq(i2c_capture, a + 1, n - 1), IsData)
    IN [address |-> Unwrap(i2c_capture[a].address),
        is_read |-> i2c_capture[a].read,
        data |-> [k \in 1..Len(bytes) |-> Unwrap(bytes[k].data)],
        success |-> i2c_capture[a].ack /\ \A k \in 1..Len(bytes) : bytes[k].ack]
RECURSIVE SpanTransactions(_)
\* the transactions of the spans closed by the first n events, in order
SpanTransactions(n) ==
    IF n = 0 THEN << >>
    ELSE SpanTransactions(n - 1)
         \o (IF ClosesSpan(n) THEN <<SpanTransaction(n)>> ELSE << >>)

\* C33: while the capture is read, the transactions built so far (taken or
\* still queued) are, in order, one for every START...STOP and every
\* START...repeated-START span with an address event among the events
\* processed, spans without data bytes included: each carries the span's
\* address, direction and data bytes in order, and succeeds iff the address
\* and every data byte were acknowledged.
C33_OneTransactionPerSpan ==
    ~i2c_flushed
    => [k \in 1..(Len(taken) + Len(transactions)) |->
            UntimedTransaction((taken \o transactions)[k])]
       = SpanTransactions(i2c_processed)

\* the transactions that are a write immediately followed by a read to the
\* same address; with_data: only the writes that carry data
WriteThenRead(ts, with_data) ==
    {i \in 1..(Len(ts) - 1) :
        /\ ~ts[i].is_read
        /\ ts[i + 1].is_read
        /\ ts[i + 1].address = ts[i].address
        /\ with_data => ts[i].data # << >>}
\* the transactions that open an operation when those of `pairs` are fused
\* with their successors, in order
Openers(ts, pairs) ==
    SelectSeq([i \in 1..Len(ts) |-> i], LAMBDA i : (i - 1) \notin pairs)
\* the operation is made of ts[h] and the read after it
IsFusedOf(op, ts, h) ==
    /\ op.start_time = ts[h].start_time
    /\ op.end_time = ts[h + 1].end_time
    /\ op.address = ts[h].address
    /\ op.read_data = Some(ts[h + 1].data)
    /\ ts[h].data # << >> => op.register = Some(ts[h].data[1])
\* the operation is made of ts[h] alone
IsSingleOf(op, ts, h) ==
    /\ op.start_time = ts[h].start_time
    /\ op.end_time = ts[h].end_time
    /\ op.address = ts[h].address
    /\ op.read_data = IF ts[h].is_read THEN Some(ts[h].data) ELSE None
\* ops are the operations of ts with the transactions of `pairs` fused
GroupedBy(ops, ts, pairs) ==
    /\ Len(ops) = Len(Openers(ts, pairs))
    /\ \A k \in 1..Len(ops) :
           LET h == Openers(ts, pairs)[k]
           IN IF h \in pairs THEN IsFusedOf(ops[k], ts, h) ELSE IsSingleOf(ops[k], ts, h)

\* C34, as stated: every non-read transaction immediately followed by a read
\* to the same address is fused with it into one operation (register the
\* first byte written, write_data the remaining bytes or nothing, read_data
\* the bytes read); every other transaction yields one operation of its own;
\* the operations are in the order of the transactions.
C34_EveryWriteThenReadIsFused ==
    IsSome(operations)
    => /\ GroupedBy(Unwrap(operations), taken, WriteThenRead(taken, FALSE))
       /\ \A k \in 1..Len(Unwrap(operations)) :
              LET h == Openers(taken, WriteThenRead(taken, FALSE))[k]
              IN (h \in WriteThenRead(taken, FALSE) /\ Len(taken[h].data) <= 1)
                 => Unwrap(operations)[k].write_data \in {None, Some(<< >>)}

\* C34, amended: a non-read transaction that carries at least one byte and
\* is immediately followed by a read to the same address is fused with it
\* into one operation with register the first byte written, write_data the
\* remaining written bytes (absent when there are none) and read_data the
\* bytes read; every other transaction, a write without data before a read
\* included, yields one operation of its own; each transaction is in exactly
\* one operation and the operations are in the order of the transactions.
C34_WriteWithDataThenReadIsFused ==
    IsSome(operations)
    => /\ GroupedBy(Unwrap(operations), taken, WriteThenRead(taken, TRUE))
       /\ \A k \in 1..Len(Unwrap(operations)) :
              LET h == Openers(taken, WriteThenRead(taken, TRUE))[k]
              IN h \in WriteThenRead(taken, TRUE)
                 => Unwrap(operations)[k].write_data =
                        IF Len(taken[h].data) > 1 THEN Some(Tail(taken[h].data))
                        ELSE None

\* A write of 05 09 to 0x24, a read of 07 from 0x24 and a read from 0x25 were
\* grouped: the first two are one operation on register 5 with write_data 09
\* and read_data 07, the third is an operation of its own.
C34_Witness ==
    /\ IsSome(operations)
    /\ Len(taken) = 3
    /\ Len(Unwrap(operations)) = 2
    /\ Unwrap(operations)[1].register = Some(5)
    /\ Unwrap(operations)[1].write_data = Some(<<9>>)
    /\ Unwrap(operations)[1].read_data = Some(<<7>>)
    /\ Unwrap(operations)[2].address = 37

(***************************************************************************)
(* Further properties of Spec.                                             *)
(***************************************************************************)
\* the number of commands the command branch has taken so far
CommandsProcessed == cmds_issued - Len(command_rx)

\* C38: every SubmitShare command taken with a channel open advances the
\* sequence counter by one, whether its share is converted and sent or
\* rejected for its job_id; the share that is sent carries the value the
\* counter had, so that the k-th command processed (from 0) is given the
\* sequence number k.
C38_EveryCommandTakesSequenceNumber ==
    /\ [](state.sequence_number = CommandsProcessed)
    /\ [][TakesCommand
          => /\ IsSome(state.channel_id)
             /\ state'.sequence_number = state.sequence_number + 1
             /\ Len(pool_tx') > Len(pool_tx)
                  => /\ Last(pool_tx').msg = "SubmitSharesStandard"
                     /\ Last(pool_tx').sequence_number = CommandsProcessed
             /\ ~parse_u32(Head(command_rx).share.job_id).ok
                  => pool_tx' = pool_tx]_vars

\* Two commands were processed: the first was rejected for its job_id, the
\* second was sent with sequence number 1, and the counter stands at 2.
C38_Witness ==
    /\ CommandsProcessed = 2
    /\ state.sequence_number = 2
    /\ Len(Submits) = 1
    /\ Submits[1].sequence_number = 1

(***************************************************************************)
(* Properties of SpecUrl.                                                  *)
(***************************************************************************)
InRange(ip, port) == (\A i \in 1..4 : ip[i] <= 255) /\ port <= 65535
\* the run got past parse_url
UrlAccepted == pc \notin {"start", "returned_err"} \/ last_connect # "none"
\* the run ended in parse_url
UrlRejected == pc = "returned_err" /\ last_connect = "none" /\ attempt = 0

\* C23: parse_url accepts scheme://a.b.c.d:port exactly when the scheme is
\* sv2+tcp and a.b.c.d:port is a socket address, and the address it returns
\* then carries that port; it rejects every URL whose remainder is no socket
\* address and every URL without the sv2+tcp:// prefix; the run goes on to
\* connect only with an accepted URL and ends with an error otherwise.
C23_ParseUrlAcceptsSv2SocketAddr ==
    LET r == StratumV2Client_parse_url(config.url)
    IN /\ \A scheme \in Schemes, ip \in IpSamples, port \in PortSamples :
              config.url = scheme \o AddrText(ip, port)
              => /\ r.ok <=> (scheme = Sv2Prefix /\ InRange(ip, port))
                 /\ r.ok => r.val = [ip |-> ip, port |-> port]
       /\ \A scheme \in Schemes, a \in MalformedAddrs :
              config.url = scheme \o a => ~r.ok
       /\ strip_prefix(config.url, Sv2Prefix) = None => ~r.ok
       /\ UrlAccepted => r.ok
       /\ UrlRejected => ~r.ok
       /\ pc # "start" => UrlAccepted \/ UrlRejected

\* "sv2+tcp://127.0.0.1:3333" was accepted with port 3333 and the run connects.
C23_Witness ==
    /\ config.url = PoolUrl
    /\ StratumV2Client_parse_url(config.url) = Ok([ip |-> <<127, 0, 0, 1>>, port |-> 3333])
    /\ pc = "noise"


(***************************************************************************)
(* Further properties of SpecJobs.                                         *)
(***************************************************************************)
\* the event the step hands to event_tx.send: sent, or held by the suspended send
Emitted ==
    IF pc' = "sending" THEN Unwrap(Unwrap(sending').emit) ELSE events'[Len(events')]
\* the step hands an event to event_tx.send
Emits == pc' = "sending" \/ n_events' = n_events + 1

\* C24: handling NewMiningJob with is_future = false leaves the job out of
\* future_jobs; with a SetNewPrevHash pending (and the scheduler listening) it
\* emits ReplaceJob carrying the template built from that job, the pending
\* prev-hash and the current target; with none pending it emits nothing.
C24_NonFutureJobIsActivated ==
    [][(HandlesFrame /\ Head(pool_rx).msg = "NewMiningJob" /\ ~Head(pool_rx).is_future)
       => LET job == Head(pool_rx)
          IN /\ DOMAIN state'.future_jobs \subseteq DOMAIN state.future_jobs
             /\ \A j \in DOMAIN state'.future_jobs :
                    state'.future_jobs[j] = state.future_jobs[j]
             /\ (IsSome(state.prev_hash) /\ ValidVersion(job.version) /\ event_open)
                => /\ Emits
                   /\ Emitted.type = "ReplaceJob"
                   /\ Emitted.template =
                          job_to_template(job, Unwrap(state.prev_hash),
                                          target_or_default(state),
                                          state.version_mask).val
             /\ ~IsSome(state.prev_hash)
                => pc' = "main" /\ UNCHANGED <<events, n_events>>]_vars

\* what the templates handed to event_tx.send so far were built from
BuiltFrom ==
    emitted_from \o (IF IsSome(sending) /\ IsSome(Unwrap(sending).from)
                     THEN <<Unwrap(Unwrap(sending).from)>> ELSE << >>)

\* C25: every JobTemplate handed to the scheduler is built from a
\* NewMiningJob and a SetNewPrevHash that carry the same job_id.
C25_TemplatePairsSameJobId ==
    \A i \in 1..Len(BuiltFrom) : BuiltFrom[i].job.job_id = BuiltFrom[i].prev_hash.job_id

\* C26: handling SetTarget replaces current_target and nothing else: no
\* event is emitted, nothing is sent to the pool, the rest of ProtocolState is
\* as before and the loop goes on; current_target changes in no other way, and
\* every activation builds its share_target from the current_target it finds.
C26_SetTargetOnlyReplacesTarget ==
    [][/\ (HandlesFrame /\ Head(pool_rx).msg = "SetTarget")
          => /\ state' = [state EXCEPT
                              !.current_target = Some(Head(pool_rx).maximum_target)]
             /\ pc' = "main"
             /\ UNCHANGED <<events, n_events, emit_count, pool_tx, sending>>
       /\ state'.current_target # state.current_target
          => HandlesFrame /\ Head(pool_rx).msg = "SetTarget"
       /\ (HandlesFrame /\ Emits)
          => Emitted.template.share_target = from_le_bytes(target_or_default(state))]_vars

\* SetTarget was handled and the activation after it built its template
\* from the new target
C26_Witness ==
    /\ state.current_target = Some(Bytes32(2))
    /\ Len(events) = 1
    /\ emit_count # << >>
    /\ n_events = 2
    /\ emitted_from[1].target = Some(Bytes32(2))
    /\ events[1].template.share_target = Bytes32(2)


(***************************************************************************)
(* Properties of SpecMask.                                                 *)
(***************************************************************************)
\* bit k of n
Bit(n, k) == (n \div (2 ^ k)) % 2
\* the number whose bits 0..15 are bits 13..28 of the mask
Bits13To28(mask) ==
    LET RECURSIVE Sum(_)
        Sum(k) == IF k = 16 THEN 0 ELSE Bit(mask, 13 + k) * (2 ^ k) + Sum(k + 1)
    IN Sum(0)

\* C27: the gp_bits of every emitted template are bits 13-28 of the
\* version-rolling mask when there is one, and 0xffff when there is none.
C27_GpBitsAreMaskBits13To28 ==
    \A i \in 1..Len(events) :
        events[i].template.version.gp_bits =
            IF IsSome(state.version_mask)
            THEN Bits13To28(Unwrap(state.version_mask))
            ELSE 65535

\* a template emitted under the mask 0x60000000: no rollable bit
C27_Witness ==
    /\ state.version_mask = Some(1610612736)
    /\ events # << >>
    /\ events[1].template.version.gp_bits = 0


(***************************************************************************)
(* Further properties of SpecOrder.                                        *)
(***************************************************************************)
\* C28: handling SubmitSharesSuccess, SubmitSharesError or SetCustomMiningJob
\* in the main loop changes nothing of ProtocolState, emits no event, sends
\* nothing to the pool, and leaves the run in its main loop with every
\* branch of the select enabled.
C28_LoggedMessagesHaveNoEffect ==
    [][(HandlesFrame /\ Head(pool_rx).msg \in LoggedOnly)
       => /\ UNCHANGED <<state, events, emitted_from, emit_count, n_events, pool_tx,
                         sending, conn_open>>
          /\ pc' = "main"
          /\ disabled' = {}]_vars

\* with a job activated, SubmitSharesError and SetCustomMiningJob are the
\* frames the main loop handles next
C28_Witness ==
    /\ pc = "main"
    /\ pool_rx = <<Plain("SubmitSharesError"), Plain("SetCustomMiningJob")>>
    /\ DOMAIN state.future_jobs # {}
    /\ IsSome(state.prev_hash)
    /\ n_events = 1

(***************************************************************************)
(* Further properties of SpecWindow.                                       *)
(***************************************************************************)
\* the job ids in future_jobs before the step's cleanup: those held and the
\* one the step stores
HeldOrStored ==
    (DOMAIN state.future_jobs)
    \cup (IF HandlesFrame /\ Head(pool_rx).msg = "NewMiningJob" /\ Head(pool_rx).is_future
          THEN {Head(pool_rx).job_id} ELSE {})
\* the job ids the step takes out of future_jobs
Evicted == HeldOrStored \ DOMAIN state'.future_jobs

\* C39: no step takes an entry out of future_jobs except the cleanup, which
\* takes the lowest job ids beyond the window of 10; the pending prev-hash is
\* never cleared and changes only when a SetNewPrevHash is stored; a step that
\* emits ReplaceJob for J leaves the prev-hash naming J; and whenever
\* SetNewPrevHash(J) or a future NewMiningJob(J) is handled while the other
\* half is held, ReplaceJob for J is emitted, however many were emitted for J
\* before.
C39_ActivationConsumesNothing ==
    [][/\ Evicted # {}
          => /\ Cardinality(HeldOrStored) > KeepCount
             /\ Evicted = Lowest(HeldOrStored, Cardinality(HeldOrStored) - KeepCount)
       /\ state'.prev_hash # state.prev_hash
          => /\ HandlesFrame
             /\ Head(pool_rx).msg = "SetNewPrevHash"
             /\ Names(state'.prev_hash, Head(pool_rx).job_id)
       /\ \A J \in 1..MaxWindowJobId :
             /\ (HandlesFrame /\ Emits /\ IsReplaceJobFor(Emitted, J))
                => /\ Names(state'.prev_hash, J)
                   /\ J \notin DOMAIN state'.future_jobs => J \in Evicted
             /\ (HandlesFrame /\ event_open /\ CompletesPair(Head(pool_rx), J))
                => Emits /\ IsReplaceJobFor(Emitted, J)]_vars

\* ReplaceJob was emitted twice for job 1, which is still held and still
\* named by the pending prev-hash.
C39_Witness ==
    /\ pc = "main"
    /\ EmitCount("ReplaceJob", to_string(1)) = 2
    /\ Held(1)
    /\ Names(state.prev_hash, 1)

====
